---- MODULE Spec2Model ----
(***************************************************************************)
(* AudioService (iOS-safe Web Audio playback): the shared AudioContext,    *)
(* the resume coordinator with its timeout race, the unlock listeners and  *)
(* the playback facade, as a state machine over the JavaScript event loop. *)
(*                                                                         *)
(* A step is a facade call made by the application, a task of the event    *)
(* loop (a DOM or platform event, a timer, a settlement of ctx.resume())   *)
(* or one microtask (a promise reaction).  A task runs only when the       *)
(* microtask queue is empty, and once the queue is being drained it is     *)
(* drained to the end; the application may make several facade calls in    *)
(* one task, before any reaction runs.                                     *)
(***************************************************************************)
EXTENDS Integers, Sequences, FiniteSets, TLC

\* Bounds of the exploration: instances constructed, attempts started, and
\* facade calls waiting at the same time
MaxContexts == 2
MaxAttempts == 3
MaxPending == 1

\* Bounds of the timer profiles explored: seconds of work, rest and
\* preparation, and rounds
MaxWorkTime == 3
MaxRestTime == 2
MaxPrepTime == 2
MaxRounds == 3

\* Bounds of the wake-lock hook: invocations suspended at an await at the same
\* time, and sentinels the platform hands out
MaxWakeCalls == 2
MaxSentinels == 3

\* Bound of the set counter: the largest maxCount a useSets is mounted with
MaxSets == 13

\* type ContextState
ContextState == {"suspended", "running", "closed", "interrupted"}

USER_GESTURE_EVENTS == {"touchstart", "touchend", "mousedown", "keydown", "click"}

\* Tones the application asks for: the defaults of playBeep and the call of
\* the file's @example (seconds and volume in hundredths)
BeepParams ==
    { [frequency |-> 880, duration |-> 15, type |-> "sine", volume |-> 70],
      [frequency |-> 440, duration |-> 20, type |-> "sine", volume |-> 70] }

\* The diagnostic tone of testSound
TestTone == [frequency |-> 440, duration |-> 30, type |-> "sine", volume |-> 80]

NoTone == [frequency |-> 0, duration |-> 0, type |-> "none", volume |-> 0]

\* The state a freshly constructed AudioContext reports
InitialStates == {"suspended", "running"}

VARIABLES
    context,             \* this.context: 0 (null) or the id of an instance
    resumePromise,       \* this.resumePromise: 0 (null) or the id of an attempt
    listenersAttached,   \* this.listenersAttached
    hasUnlockedBefore,   \* this.hasUnlockedBefore
    ctxState,            \* AudioContext.state of every instance constructed so far
    scListeners,         \* number of statechange listeners on every instance
    gestureListeners,    \* listeners on document.body, per gesture event
    visibilityListeners, \* visibilitychange listeners on document
    attempts,            \* every promise chain built by attemptResume
    microtasks,          \* the queue of promise reactions
    draining,            \* the event loop is running the queued reactions
    pending,             \* the facade calls that still have a reaction to run
    emitted,             \* the events recordEvent got during the last step
    synth,               \* the tones started during the last step
    returned             \* the facade call that finished during the last step

\* The hooks of the application, which are mounted apart from the service
VARIABLES
    profile,             \* useTimer(profile): the TimerProfile in use
    timerState,          \* useTimer: result.current.state
    mounted,             \* useWakeLock: the mount effect ran and was not cleaned up
    wakeLockSupported,   \* "wakeLock" in navigator
    wakeLockRef,         \* wakeLockRef.current: 0 (null) or the id of a sentinel
    sentinels,           \* every WakeLockSentinel handed out: "held" or "released"
    wakeCalls,           \* the invocations suspended at an await
    count,               \* useSets: state.count
    maxCount             \* useSets: state.maxCount, the argument of the hook

vars == <<context, resumePromise, listenersAttached, hasUnlockedBefore, ctxState,
          scListeners, gestureListeners, visibilityListeners, attempts,
          microtasks, draining, pending, emitted, synth, returned>>

wakeVars == <<mounted, wakeLockSupported, wakeLockRef, sentinels, wakeCalls>>

setsVars == <<count, maxCount>>

hooks == <<profile, timerState, wakeVars, setsVars>>

\* recordEvent(type, details)
recordEvent(type, info) == [type |-> type, info |-> info]

\* The service and platform state an operation of the class reads and writes
Cur ==
    [context |-> context, resumePromise |-> resumePromise,
     listenersAttached |-> listenersAttached,
     hasUnlockedBefore |-> hasUnlockedBefore, ctxState |-> ctxState,
     scListeners |-> scListeners, gestureListeners |-> gestureListeners,
     visibilityListeners |-> visibilityListeners, attempts |-> attempts,
     microtasks |-> microtasks, emitted |-> <<>>, synth |-> <<>>]

Commit(S) ==
    /\ context' = S.context
    /\ resumePromise' = S.resumePromise
    /\ listenersAttached' = S.listenersAttached
    /\ hasUnlockedBefore' = S.hasUnlockedBefore
    /\ ctxState' = S.ctxState
    /\ scListeners' = S.scListeners
    /\ gestureListeners' = S.gestureListeners
    /\ visibilityListeners' = S.visibilityListeners
    /\ attempts' = S.attempts
    /\ microtasks' = S.microtasks
    /\ emitted' = S.emitted
    /\ synth' = S.synth
    /\ UNCHANGED hooks

Emit(S, type, info) == [S EXCEPT !.emitted = Append(@, recordEvent(type, info))]

\* The exploration stops constructing instances, starting attempts and
\* accepting calls at the bounds; an ensureRunning that waits may construct
\* one more instance when it resumes, and that one is kept in reserve
Reserve(p) == Len(SelectSeq(p, LAMBDA c : c.op = "ensureRunning"))

Bounded ==
    /\ Len(ctxState') + Reserve(pending') <= MaxContexts
    /\ Len(attempts') <= MaxAttempts
    /\ Len(pending') <= MaxPending

----------------------------------------------------------------------------
\* Context lifecycle

\* setupStateChangeListener(): one more statechange listener on this.context
setupStateChangeListener(S) ==
    IF S.context = 0 THEN S
    ELSE [S EXCEPT !.scListeners[S.context] = @ + 1]

\* A setupListeners without the listenersAttached guard: it registers the
\* document listeners again for every instance constructed
setupListeners_everyTime(S) ==
    setupStateChangeListener(
        [S EXCEPT !.listenersAttached = TRUE,
                  !.gestureListeners = [e \in USER_GESTURE_EVENTS |-> @[e] + 1],
                  !.visibilityListeners = @ + 1])

\* setupListeners(): once per service lifetime
setupListeners(S) ==
    IF S.listenersAttached THEN S
    ELSE setupStateChangeListener(
            [S EXCEPT !.listenersAttached = TRUE,
                      !.gestureListeners = [e \in USER_GESTURE_EVENTS |-> @[e] + 1],
                      !.visibilityListeners = @ + 1])

\* A getContext that constructs one instance only and afterwards hands out
\* that one again, closed or not
getContext_reuse(S, initState) ==
    IF S.context = 0 \/ S.ctxState[S.context] = "closed"
    THEN IF Len(S.ctxState) = 0
         THEN LET S1 == [S EXCEPT !.ctxState = Append(@, initState),
                                  !.scListeners = Append(@, 0),
                                  !.context = 1]
                  S2 == Emit(S1, "audio:context_created", initState)
              IN  setupStateChangeListener(setupListeners(S2))
         ELSE [S EXCEPT !.context = Len(S.ctxState)]
    ELSE S

\* getContext(): creates an instance if there is none or it is closed
getContext(S, initState) ==
    IF S.context = 0 \/ S.ctxState[S.context] = "closed"
    THEN LET id == Len(S.ctxState) + 1
             S1 == [S EXCEPT !.ctxState = Append(@, initState),
                             !.scListeners = Append(@, 0),
                             !.context = id]
             S2 == Emit(S1, "audio:context_created", initState)
         IN  setupStateChangeListener(setupListeners(S2))
    ELSE S

\* A destroyContext that forgets the instance without closing it
destroyContext_noClose(S) ==
    IF S.context = 0 THEN S
    ELSE LET S1 == Emit(S, "audio:context_destroyed", S.ctxState[S.context])
         IN  [S1 EXCEPT !.context = 0,
                        !.resumePromise = 0,
                        !.hasUnlockedBefore = FALSE]

\* A destroyContext that forgets the instance and leaves this.resumePromise
\* as it was
destroyContext_keepHandle(S) ==
    IF S.context = 0 THEN S
    ELSE LET S1 == Emit(S, "audio:context_destroyed", S.ctxState[S.context])
         IN  [S1 EXCEPT !.ctxState[S.context] = "closed",
                        !.context = 0,
                        !.hasUnlockedBefore = FALSE]

\* destroyContext(): close and forget the current instance
destroyContext(S) ==
    IF S.context = 0 THEN S
    ELSE LET S1 == Emit(S, "audio:context_destroyed", S.ctxState[S.context])
         IN  [S1 EXCEPT !.ctxState[S.context] = "closed",
                        !.context = 0,
                        !.resumePromise = 0,
                        !.hasUnlockedBefore = FALSE]

----------------------------------------------------------------------------
\* Resume logic

\* A warmup whose failure is taken for a stuck context
playSilentWarmup_fatal(S, warmOk) ==
    IF warmOk THEN Emit(S, "audio:silent_warmup", "ok")
    ELSE destroyContext(Emit(S, "audio:silent_warmup", "error"))

\* playSilentWarmup(ctx): best effort, records the event either way
playSilentWarmup(S, warmOk) ==
    Emit(S, "audio:silent_warmup", IF warmOk THEN "ok" ELSE "error")

\* A chain that awaits ctx.resume() directly, with no timer racing it
NewAttempt_noTimeout(ctx) ==
    [ctx |-> ctx, platform |-> "pending", timer |-> "cleared", race |-> "pending",
     stage |-> "racing", value |-> FALSE]

\* withTimeout(ctx.resume(), RESUME_TIMEOUT_MS, msg) followed by the
\* then / catch / finally chain: the platform promise, the timer and the race
NewAttempt(ctx) ==
    [ctx |-> ctx,
     platform |-> "pending",   \* ctx.resume(): pending, resolved, rejected
     timer |-> "armed",        \* setTimeout: armed, fired, cleared
     race |-> "pending",       \* Promise.race: pending, resolved, rejected, timeout
     stage |-> "racing",       \* racing, handler, finally, settled
     value |-> FALSE]          \* what the chain resolves to

Value(v) == [kind |-> "value", value |-> v, id |-> 0]
Pending(a) == [kind |-> "attempt", value |-> FALSE, id |-> a]

\* An attemptResume that treats a closed or unexpected state as a failed
\* resume, destroying the context
attemptResume_destroyUnexpected(S, trigger, warmOk) ==
    IF S.context = 0 THEN [S |-> S, ret |-> Value(FALSE)]
    ELSE LET ctx == S.context
             state == S.ctxState[ctx]
         IN  IF state = "running" THEN [S |-> S, ret |-> Value(TRUE)]
             ELSE IF S.resumePromise # 0
                  THEN [S |-> S, ret |-> Pending(S.resumePromise)]
             ELSE IF state # "suspended" /\ state # "interrupted"
                  THEN [S |-> destroyContext(S), ret |-> Value(FALSE)]
             ELSE LET id == Len(S.attempts) + 1
                      S1 == playSilentWarmup(Emit(S, "audio:resuming", trigger), warmOk)
                      S2 == [S1 EXCEPT !.attempts = Append(@, NewAttempt(ctx)),
                                       !.resumePromise = id]
                  IN  [S |-> S2, ret |-> Pending(id)]

\* An attemptResume that does not look at this.resumePromise: every request on
\* a suspended or interrupted context calls resume() again
attemptResume_uncoalesced(S, trigger, warmOk) ==
    IF S.context = 0 THEN [S |-> S, ret |-> Value(FALSE)]
    ELSE LET ctx == S.context
             state == S.ctxState[ctx]
         IN  IF state = "running" THEN [S |-> S, ret |-> Value(TRUE)]
             ELSE IF state # "suspended" /\ state # "interrupted"
                  THEN [S |-> S, ret |-> Value(FALSE)]
             ELSE LET id == Len(S.attempts) + 1
                      S1 == playSilentWarmup(Emit(S, "audio:resuming", trigger), warmOk)
                      S2 == [S1 EXCEPT !.attempts = Append(@, NewAttempt(ctx)),
                                       !.resumePromise = id]
                  IN  [S |-> S2, ret |-> Pending(id)]

\* attemptResume(trigger): the state after the call and the promise returned
attemptResume(S, trigger, warmOk) ==
    IF S.context = 0 THEN [S |-> S, ret |-> Value(FALSE)]
    ELSE LET ctx == S.context
             state == S.ctxState[ctx]
         IN  IF state = "running" THEN [S |-> S, ret |-> Value(TRUE)]
             ELSE IF S.resumePromise # 0
                  THEN [S |-> S, ret |-> Pending(S.resumePromise)]
             ELSE IF state # "suspended" /\ state # "interrupted"
                  THEN [S |-> S, ret |-> Value(FALSE)]
             ELSE LET id == Len(S.attempts) + 1
                      S1 == playSilentWarmup(Emit(S, "audio:resuming", trigger), warmOk)
                      S2 == [S1 EXCEPT !.attempts = Append(@, NewAttempt(ctx)),
                                       !.resumePromise = id]
                  IN  [S |-> S2, ret |-> Pending(id)]

----------------------------------------------------------------------------
\* Playback

\* A doPlayBeep whose catch records the error and keeps the context
doPlayBeep_keepContext(S, ctx, params, call, synthOk) ==
    IF S.ctxState[ctx] # "running"
    THEN Emit(S, "audio:play_skipped", "not_running")
    ELSE IF synthOk
         THEN Emit([S EXCEPT !.synth = Append(@, [ctx |-> ctx, call |-> call,
                                                   params |-> params])],
                   "audio:played", "")
         ELSE Emit(S, "audio:play_error", "")

\* A doPlayBeep that programs the oscillator with the defaults of playBeep
\* instead of its arguments
doPlayBeep_defaults(S, ctx, params, call, synthOk) ==
    IF S.ctxState[ctx] # "running"
    THEN Emit(S, "audio:play_skipped", "not_running")
    ELSE IF synthOk
         THEN Emit([S EXCEPT !.synth = Append(@, [ctx |-> ctx, call |-> call,
                       params |-> [frequency |-> 880, duration |-> 15,
                                   type |-> "sine", volume |-> 70]])],
                   "audio:played", "")
         ELSE destroyContext(Emit(S, "audio:play_error", ""))

\* doPlayBeep(ctx, frequency, duration, type, volume); synthOk is whether
\* the oscillator / gain graph could be built and started
doPlayBeep(S, ctx, params, call, synthOk) ==
    IF S.ctxState[ctx] # "running"
    THEN Emit(S, "audio:play_skipped", "not_running")
    ELSE IF synthOk
         THEN Emit([S EXCEPT !.synth = Append(@, [ctx |-> ctx, call |-> call,
                                                   params |-> params])],
                   "audio:played", "")
         ELSE destroyContext(Emit(S, "audio:play_error", ""))

----------------------------------------------------------------------------
\* Facade calls.  A call is a record: pc is "awaiting" while it waits for a
\* chain built by attemptResume, "ready" once its reaction is queued, "done"
\* when it has nothing left to run; state is the context state it read
\* when it was made, started the attempt it began (0: none), await the chain
\* it waits for, value what that chain resolved to.

NoResult == [state |-> "", played |-> FALSE, error |-> ""]

NewCall(op, id, state) ==
    [id |-> id, op |-> op, pc |-> "done", state |-> state, await |-> 0,
     value |-> FALSE, started |-> 0, params |-> NoTone, ret |-> 0,
     result |-> NoResult, outcome |-> ""]

\* The smallest id no waiting call uses
NewId == CHOOSE i \in 1..(Len(pending) + 1) :
            /\ \A k \in 1..Len(pending) : pending[k].id # i
            /\ \A j \in 1..(i - 1) : \E k \in 1..Len(pending) : pending[k].id = j

Index(id) == CHOOSE k \in 1..Len(pending) : pending[k].id = id

Without(id) == SelectSeq(pending, LAMBDA c : c.id # id)

\* What a caller of attemptResume does with the promise it got: wait for the
\* chain, or queue its reaction behind an already resolved promise
Await(S, c, r) ==
    IF r.kind = "attempt" THEN S
    ELSE [S EXCEPT !.microtasks = Append(@, [kind |-> "cont", id |-> c])]

AwaitCall(call, S0, r) ==
    [call EXCEPT !.pc = IF r.kind = "attempt" THEN "awaiting" ELSE "ready",
                 !.await = r.id,
                 !.value = r.value,
                 !.started = IF r.kind = "attempt" /\ r.id > Len(S0.attempts)
                             THEN r.id ELSE 0]

\* prime()
prime(initState) ==
    /\ ~draining
    /\ draining' = FALSE
    /\ LET S1 == getContext(Cur, initState)
       IN  /\ Commit(S1)
           /\ returned' = <<[NewCall("prime", NewId, S1.ctxState[S1.context])
                               EXCEPT !.outcome = "returned"]>>
    /\ UNCHANGED pending
    /\ Bounded

\* ensureRunning(), up to its await
ensureRunning(initState, warmOk) ==
    /\ ~draining
    /\ draining' = FALSE
    /\ LET S1 == getContext(Cur, initState)
           ctx == S1.context
           call == NewCall("ensureRunning", NewId, S1.ctxState[ctx])
       IN  IF S1.ctxState[ctx] = "running"
           THEN /\ Commit(S1)
                /\ returned' = <<[call EXCEPT !.ret = ctx, !.outcome = "resolved"]>>
                /\ UNCHANGED pending
           ELSE LET r == attemptResume(S1, "ensureRunning", warmOk)
                IN  /\ Commit(Await(r.S, call.id, r.ret))
                    /\ pending' = Append(pending, AwaitCall(call, S1, r.ret))
                    /\ returned' = <<>>
    /\ Bounded

\* An ensureRunning that returns, after its await, the instance it got
\* before it, without acquiring one again
ensureRunningResume_cached(initState) ==
    /\ microtasks # <<>>
    /\ Head(microtasks).kind = "cont"
    /\ initState \in InitialStates
    /\ LET c == Head(microtasks).id
           call == pending[Index(c)]
       IN  /\ call.op = "ensureRunning"
           /\ Commit([Cur EXCEPT !.microtasks = Tail(@)])
           /\ returned' = <<[call EXCEPT !.pc = "done", !.ret = attempts[call.await].ctx,
                                         !.outcome = "resolved"]>>
           /\ pending' = Without(c)
    /\ draining' = (microtasks' # <<>>)

\* An ensureRunning that returns this.context as it finds it after the await,
\* without getContext()
ensureRunningResume_noReacquire(initState) ==
    /\ microtasks # <<>>
    /\ Head(microtasks).kind = "cont"
    /\ initState \in InitialStates
    /\ LET c == Head(microtasks).id
           call == pending[Index(c)]
       IN  /\ call.op = "ensureRunning"
           /\ Commit([Cur EXCEPT !.microtasks = Tail(@)])
           /\ returned' = <<[call EXCEPT !.pc = "done", !.ret = context,
                                         !.outcome = "resolved"]>>
           /\ pending' = Without(c)
    /\ draining' = (microtasks' # <<>>)

\* ensureRunning(), after its await: return this.getContext()
ensureRunningResume(initState) ==
    /\ microtasks # <<>>
    /\ Head(microtasks).kind = "cont"
    /\ LET c == Head(microtasks).id
           call == pending[Index(c)]
           S1 == getContext([Cur EXCEPT !.microtasks = Tail(@)], initState)
       IN  /\ call.op = "ensureRunning"
           /\ Commit(S1)
           /\ returned' = <<[call EXCEPT !.pc = "done", !.ret = S1.context,
                                         !.outcome = "resolved"]>>
           /\ pending' = Without(c)
    /\ draining' = (microtasks' # <<>>)

\* A playBeep that joins the attempt in flight instead of skipping, and plays
\* when that attempt succeeds
playBeep_joining(params, initState, warmOk, synthOk) ==
    /\ ~draining
    /\ draining' = FALSE
    /\ LET S1 == getContext(Cur, initState)
           ctx == S1.context
           state == S1.ctxState[ctx]
           call == [NewCall("playBeep", NewId, state) EXCEPT !.params = params]
       IN  IF state = "running"
           THEN /\ Commit(doPlayBeep(S1, ctx, params, call.id, synthOk))
                /\ returned' = <<[call EXCEPT !.outcome =
                                    IF synthOk THEN "played" ELSE "play_error"]>>
                /\ UNCHANGED pending
           ELSE IF state = "suspended" \/ state = "interrupted"
           THEN LET r == IF S1.resumePromise # 0
                         THEN [S |-> S1, ret |-> Pending(S1.resumePromise)]
                         ELSE attemptResume(S1, "playBeep", warmOk)
                IN  /\ Commit(Await(r.S, call.id, r.ret))
                    /\ pending' = Append(pending, AwaitCall(call, S1, r.ret))
                    /\ returned' = <<>>
           ELSE /\ Commit(Emit(S1, "audio:play_skipped", "unexpected_state"))
                /\ returned' = <<[call EXCEPT !.outcome = "unexpected_state"]>>
                /\ UNCHANGED pending
    /\ Bounded

\* A playBeep that does not look at this.resumePromise: a call made while an
\* attempt is in flight waits for that attempt and plays after it
playBeep_queued(params, initState, warmOk, synthOk) ==
    /\ ~draining
    /\ draining' = FALSE
    /\ LET S1 == getContext(Cur, initState)
           ctx == S1.context
           state == S1.ctxState[ctx]
           call == [NewCall("playBeep", NewId, state) EXCEPT !.params = params]
       IN  IF state = "running"
           THEN /\ Commit(doPlayBeep(S1, ctx, params, call.id, synthOk))
                /\ returned' = <<[call EXCEPT !.outcome =
                                    IF synthOk THEN "played" ELSE "play_error"]>>
                /\ UNCHANGED pending
           ELSE LET r == attemptResume(S1, "playBeep", warmOk)
                IN  /\ Commit(Await(r.S, call.id, r.ret))
                    /\ pending' = Append(pending, AwaitCall(call, S1, r.ret))
                    /\ returned' = <<>>
    /\ Bounded

\* playBeep(frequency, duration, type, volume), the synchronous part
playBeep(params, initState, warmOk, synthOk) ==
    /\ ~draining
    /\ draining' = FALSE
    /\ LET S1 == getContext(Cur, initState)
           ctx == S1.context
           state == S1.ctxState[ctx]
           call == [NewCall("playBeep", NewId, state) EXCEPT !.params = params]
       IN  IF state = "running"
           THEN /\ Commit(doPlayBeep(S1, ctx, params, call.id, synthOk))
                /\ returned' = <<[call EXCEPT !.outcome =
                                    IF synthOk THEN "played" ELSE "play_error"]>>
                /\ UNCHANGED pending
           ELSE IF state = "suspended" \/ state = "interrupted"
           THEN IF S1.resumePromise # 0
                THEN /\ Commit(Emit(S1, "audio:play_skipped", "resume_in_progress"))
                     /\ returned' = <<[call EXCEPT !.outcome = "resume_in_progress"]>>
                     /\ UNCHANGED pending
                ELSE LET r == attemptResume(S1, "playBeep", warmOk)
                     IN  /\ Commit(Await(r.S, call.id, r.ret))
                         /\ pending' = Append(pending, AwaitCall(call, S1, r.ret))
                         /\ returned' = <<>>
           ELSE /\ Commit(Emit(S1, "audio:play_skipped", "unexpected_state"))
                /\ returned' = <<[call EXCEPT !.outcome = "unexpected_state"]>>
                /\ UNCHANGED pending
    /\ Bounded

\* A reaction of playBeep that does not look at what the attempt resolved to
playBeepThen_anyOutcome(synthOk) ==
    /\ microtasks # <<>>
    /\ Head(microtasks).kind = "cont"
    /\ LET c == Head(microtasks).id
           call == pending[Index(c)]
           S0 == [Cur EXCEPT !.microtasks = Tail(@)]
       IN  /\ call.op = "playBeep"
           /\ IF S0.context # 0 /\ S0.ctxState[S0.context] = "running"
              THEN /\ Commit(doPlayBeep(S0, S0.context, call.params, c, synthOk))
                   /\ returned' = <<[call EXCEPT !.pc = "done", !.outcome =
                                       IF synthOk THEN "played" ELSE "play_error"]>>
              ELSE /\ Commit(S0)
                   /\ returned' = <<[call EXCEPT !.pc = "done", !.outcome = "dropped"]>>
           /\ pending' = Without(c)
    /\ draining' = (microtasks' # <<>>)

\* playBeep: the reaction attached to attemptResume("playBeep")
playBeepThen(synthOk) ==
    /\ microtasks # <<>>
    /\ Head(microtasks).kind = "cont"
    /\ LET c == Head(microtasks).id
           call == pending[Index(c)]
           S0 == [Cur EXCEPT !.microtasks = Tail(@)]
           success == call.value
       IN  /\ call.op = "playBeep"
           /\ IF success /\ S0.context # 0 /\ S0.ctxState[S0.context] = "running"
              THEN /\ Commit(doPlayBeep(S0, S0.context, call.params, c, synthOk))
                   /\ returned' = <<[call EXCEPT !.pc = "done", !.outcome =
                                       IF synthOk THEN "played" ELSE "play_error"]>>
              ELSE /\ Commit(S0)
                   /\ returned' = <<[call EXCEPT !.pc = "done", !.outcome = "dropped"]>>
           /\ pending' = Without(c)
    /\ draining' = (microtasks' # <<>>)

\* testSound(), up to its await
testSound(initState, warmOk) ==
    /\ ~draining
    /\ draining' = FALSE
    /\ LET S1 == getContext(Cur, initState)
           initialState == S1.ctxState[S1.context]
           S2 == Emit(S1, "audio:test_requested", initialState)
           r == attemptResume(S2, "testSound", warmOk)
           call == NewCall("testSound", NewId, initialState)
       IN  /\ Commit(Await(r.S, call.id, r.ret))
           /\ pending' = Append(pending, AwaitCall(call, S2, r.ret))
           /\ returned' = <<>>
    /\ Bounded

\* A testSound whose reads of this.context.state after doPlayBeep are not
\* inside the try: the TypeError rejects the promise it returned
testSoundResume_uncaught(synthOk) ==
    /\ microtasks # <<>>
    /\ Head(microtasks).kind = "cont"
    /\ LET c == Head(microtasks).id
           call == pending[Index(c)]
           S0 == [Cur EXCEPT !.microtasks = Tail(@)]
           success == call.value
           done == [call EXCEPT !.pc = "done", !.outcome = "resolved"]
       IN  /\ call.op = "testSound"
           /\ IF success /\ S0.context # 0 /\ S0.ctxState[S0.context] = "running"
              THEN LET S1 == doPlayBeep(S0, S0.context, TestTone, c, synthOk)
                   IN  IF S1.context = 0
                       THEN /\ Commit(S1)
                            /\ returned' = <<[done EXCEPT !.outcome = "rejected"]>>
                       ELSE /\ Commit(Emit(S1, "audio:test_success", S1.ctxState[S1.context]))
                            /\ returned' = <<[done EXCEPT !.result =
                                               [state |-> S1.ctxState[S1.context],
                                                played |-> TRUE, error |-> ""]]>>
              ELSE LET finalState == IF S0.context = 0 THEN "destroyed"
                                     ELSE S0.ctxState[S0.context]
                   IN  /\ Commit(Emit(S0, "audio:test_failed", "not_running"))
                       /\ returned' = <<[done EXCEPT !.result =
                                          [state |-> finalState, played |-> FALSE,
                                           error |-> "Context state: " \o finalState]]>>
           /\ pending' = Without(c)
    /\ draining' = (microtasks' # <<>>)

\* A testSound that reports, when the attempt failed, the state it read
\* before the await instead of the state it finds after it
testSoundResume_initialState(synthOk) ==
    /\ microtasks # <<>>
    /\ Head(microtasks).kind = "cont"
    /\ LET c == Head(microtasks).id
           call == pending[Index(c)]
           S0 == [Cur EXCEPT !.microtasks = Tail(@)]
           success == call.value
           done == [call EXCEPT !.pc = "done", !.outcome = "resolved"]
       IN  /\ call.op = "testSound"
           /\ IF success /\ S0.context # 0 /\ S0.ctxState[S0.context] = "running"
              THEN LET S1 == doPlayBeep(S0, S0.context, TestTone, c, synthOk)
                   IN  IF S1.context = 0
                       THEN /\ Commit(Emit(S1, "audio:test_failed", "TypeError"))
                            /\ returned' = <<[done EXCEPT !.result =
                                               [state |-> call.state, played |-> FALSE,
                                                error |-> "TypeError"]]>>
                       ELSE /\ Commit(Emit(S1, "audio:test_success", S1.ctxState[S1.context]))
                            /\ returned' = <<[done EXCEPT !.result =
                                               [state |-> S1.ctxState[S1.context],
                                                played |-> TRUE, error |-> ""]]>>
              ELSE /\ Commit(Emit(S0, "audio:test_failed", "not_running"))
                   /\ returned' = <<[done EXCEPT !.result =
                                      [state |-> call.state, played |-> FALSE,
                                       error |-> "Context state: " \o call.state]]>>
           /\ pending' = Without(c)
    /\ draining' = (microtasks' # <<>>)

\* A testSound that reports played whenever the attempt resolved true
testSoundResume_optimistic(synthOk) ==
    /\ microtasks # <<>>
    /\ Head(microtasks).kind = "cont"
    /\ LET c == Head(microtasks).id
           call == pending[Index(c)]
           S0 == [Cur EXCEPT !.microtasks = Tail(@)]
           success == call.value
           done == [call EXCEPT !.pc = "done", !.outcome = "resolved"]
       IN  /\ call.op = "testSound"
           /\ IF success
              THEN LET S1 == IF S0.context # 0
                             THEN doPlayBeep(S0, S0.context, TestTone, c, synthOk)
                             ELSE S0
                       finalState == IF S1.context = 0 THEN "destroyed"
                                     ELSE S1.ctxState[S1.context]
                   IN  /\ Commit(Emit(S1, "audio:test_success", finalState))
                       /\ returned' = <<[done EXCEPT !.result =
                                          [state |-> finalState, played |-> TRUE,
                                           error |-> ""]]>>
              ELSE LET finalState == IF S0.context = 0 THEN "destroyed"
                                     ELSE S0.ctxState[S0.context]
                   IN  /\ Commit(Emit(S0, "audio:test_failed", "not_running"))
                       /\ returned' = <<[done EXCEPT !.result =
                                          [state |-> finalState, played |-> FALSE,
                                           error |-> "Context state: " \o finalState]]>>
           /\ pending' = Without(c)
    /\ draining' = (microtasks' # <<>>)

\* testSound(), after its await
testSoundResume(synthOk) ==
    /\ microtasks # <<>>
    /\ Head(microtasks).kind = "cont"
    /\ LET c == Head(microtasks).id
           call == pending[Index(c)]
           S0 == [Cur EXCEPT !.microtasks = Tail(@)]
           success == call.value
           done == [call EXCEPT !.pc = "done", !.outcome = "resolved"]
       IN  /\ call.op = "testSound"
           /\ IF success /\ S0.context # 0 /\ S0.ctxState[S0.context] = "running"
              THEN LET S1 == doPlayBeep(S0, S0.context, TestTone, c, synthOk)
                   IN  IF S1.context = 0
                       \* this.context.state throws a TypeError, caught below
                       THEN /\ Commit(Emit(S1, "audio:test_failed", "TypeError"))
                            /\ returned' = <<[done EXCEPT !.result =
                                               [state |-> call.state, played |-> FALSE,
                                                error |-> "TypeError"]]>>
                       ELSE /\ Commit(Emit(S1, "audio:test_success", S1.ctxState[S1.context]))
                            /\ returned' = <<[done EXCEPT !.result =
                                               [state |-> S1.ctxState[S1.context],
                                                played |-> TRUE, error |-> ""]]>>
              ELSE LET finalState == IF S0.context = 0 THEN "destroyed"
                                     ELSE S0.ctxState[S0.context]
                   IN  /\ Commit(Emit(S0, "audio:test_failed", "not_running"))
                       /\ returned' = <<[done EXCEPT !.result =
                                          [state |-> finalState, played |-> FALSE,
                                           error |-> "Context state: " \o finalState]]>>
           /\ pending' = Without(c)
    /\ draining' = (microtasks' # <<>>)

\* What getState() returns; null is "null"
Snapshot(S) ==
    [contextExists |-> S.context # 0,
     state |-> IF S.context = 0 THEN "null" ELSE S.ctxState[S.context],
     hasUnlockedBefore |-> S.hasUnlockedBefore,
     resumeInProgress |-> S.resumePromise # 0]

\* A getState that acquires the context before it reads it
getState_acquiring ==
    /\ ~draining
    /\ draining' = FALSE
    /\ \E initState \in InitialStates :
          LET S1 == getContext(Cur, initState)
          IN  /\ Commit(S1)
              /\ returned' = <<[NewCall("getState", NewId, Snapshot(S1).state)
                                  EXCEPT !.outcome = "returned",
                                         !.result = Snapshot(S1)]>>
    /\ UNCHANGED pending
    /\ Bounded

\* getState()
getState ==
    /\ ~draining
    /\ draining' = FALSE
    /\ Commit(Cur)
    /\ returned' = <<[NewCall("getState", NewId, Snapshot(Cur).state)
                        EXCEPT !.outcome = "returned", !.result = Snapshot(Cur)]>>
    /\ UNCHANGED pending

\* new AudioContextClass() throws in getContext (the environment has no audio
\* API, or the platform refuses another instance): nothing was assigned yet,
\* and no caller of getContext catches, so prime and playBeep throw and the
\* async ensureRunning and testSound return a rejected promise
ConstructorThrows(op) ==
    /\ ~draining
    /\ draining' = FALSE
    /\ IF context = 0 THEN TRUE ELSE ctxState[context] = "closed"
    /\ Commit(Cur)
    /\ returned' = <<[NewCall(op, NewId, Snapshot(Cur).state)
                        EXCEPT !.outcome = IF op \in {"ensureRunning", "testSound"}
                                           THEN "rejected" ELSE "threw"]>>
    /\ UNCHANGED pending

\* ensureRunning(), after its await, when the constructor throws in
\* this.getContext(): the promise it returned is rejected
ensureRunningResumeThrows ==
    /\ microtasks # <<>>
    /\ Head(microtasks).kind = "cont"
    /\ IF context = 0 THEN TRUE ELSE ctxState[context] = "closed"
    /\ LET c == Head(microtasks).id
           call == pending[Index(c)]
       IN  /\ call.op = "ensureRunning"
           /\ Commit([Cur EXCEPT !.microtasks = Tail(@)])
           /\ returned' = <<[call EXCEPT !.pc = "done", !.outcome = "rejected"]>>
           /\ pending' = Without(c)
    /\ draining' = (microtasks' # <<>>)

----------------------------------------------------------------------------
\* The promise chain of an attempt:
\*   withTimeout(ctx.resume(), ...).then(..).catch(..).finally(..)

Enqueue(S, kind, id) == [S EXCEPT !.microtasks = Append(@, [kind |-> kind, id |-> id])]

\* Promise.race settles with whichever of the two settles first; the
\* finally of withTimeout clears the timer
withTimeout(S, a, outcome) ==
    Enqueue([S EXCEPT !.attempts[a].race = outcome,
                      !.attempts[a].timer = IF outcome = "timeout" THEN "fired" ELSE "cleared",
                      !.attempts[a].stage = "handler"],
            "handler", a)

\* The timer of withTimeout fires.  All timers run for RESUME_TIMEOUT_MS, so
\* they fire in the order they were armed.
TimerFire(a) ==
    /\ microtasks = <<>>
    /\ attempts[a].timer = "armed"
    /\ \A b \in 1..(a - 1) : attempts[b].timer # "armed"
    /\ Commit(withTimeout(Cur, a, "timeout"))
    /\ returned' = <<>>
    /\ UNCHANGED pending
    /\ draining' = (microtasks' # <<>>)

\* A chain whose handlers react to ctx.resume() itself rather than to the
\* race: a resume() resolved after the timeout runs them once more
ResumeResolve_afterRace(a, state) ==
    /\ microtasks = <<>>
    /\ attempts[a].platform = "pending"
    /\ LET ctx == attempts[a].ctx
           S1 == [Cur EXCEPT !.attempts[a].platform = "resolved",
                             !.ctxState[ctx] = IF @ = "closed" THEN @ ELSE state]
       IN  /\ state \in {"running", ctxState[ctx]}
           /\ Commit(withTimeout(S1, a, "resolved"))
    /\ returned' = <<>>
    /\ UNCHANGED pending
    /\ draining' = (microtasks' # <<>>)

\* The platform resolves ctx.resume(); the state it leaves is the
\* platform's choice.  After the race is over this has no reaction left.
ResumeResolve(a, state) ==
    /\ microtasks = <<>>
    /\ attempts[a].platform = "pending"
    /\ LET ctx == attempts[a].ctx
           S1 == [Cur EXCEPT !.attempts[a].platform = "resolved",
                             !.ctxState[ctx] = IF @ = "closed" THEN @ ELSE state]
       IN  /\ state \in {"running", ctxState[ctx]}
           /\ Commit(IF attempts[a].race = "pending"
                     THEN withTimeout(S1, a, "resolved") ELSE S1)
    /\ returned' = <<>>
    /\ UNCHANGED pending
    /\ draining' = (microtasks' # <<>>)

\* The platform rejects ctx.resume()
ResumeReject(a) ==
    /\ microtasks = <<>>
    /\ attempts[a].platform = "pending"
    /\ LET S1 == [Cur EXCEPT !.attempts[a].platform = "rejected"]
       IN  Commit(IF attempts[a].race = "pending"
                  THEN withTimeout(S1, a, "rejected") ELSE S1)
    /\ returned' = <<>>
    /\ UNCHANGED pending
    /\ draining' = (microtasks' # <<>>)

\* A .then handler that takes the gesture listeners off once the context is
\* unlocked
onResumed_removeListeners(S, a) ==
    LET ctx == S.attempts[a].ctx
        S1 == Emit([S EXCEPT !.hasUnlockedBefore = TRUE,
                             !.gestureListeners = [e \in USER_GESTURE_EVENTS |-> 0]],
                   "audio:resumed", S.ctxState[ctx])
    IN  [S1 EXCEPT !.attempts[a].value = (S.ctxState[ctx] = "running")]

\* A .then handler that takes every resolution of resume() for a success
onResumed_alwaysTrue(S, a) ==
    LET ctx == S.attempts[a].ctx
        S1 == Emit([S EXCEPT !.hasUnlockedBefore = TRUE], "audio:resumed",
                   S.ctxState[ctx])
    IN  [S1 EXCEPT !.attempts[a].value = TRUE]

\* The .then handler of attemptResume
onResumed(S, a) ==
    LET ctx == S.attempts[a].ctx
        S1 == Emit([S EXCEPT !.hasUnlockedBefore = TRUE], "audio:resumed",
                   S.ctxState[ctx])
    IN  [S1 EXCEPT !.attempts[a].value = (S.ctxState[ctx] = "running")]

\* A .catch handler that records the failure and keeps the context
onResumeFailed_keepContext(S, a) ==
    [Emit(S, "audio:resume_failed", S.attempts[a].race) EXCEPT !.attempts[a].value = FALSE]

\* The .catch handler of attemptResume
onResumeFailed(S, a) ==
    LET S1 == Emit(S, "audio:resume_failed", S.attempts[a].race)
        S2 == destroyContext(S1)
    IN  [S2 EXCEPT !.attempts[a].value = FALSE]

\* The reaction that runs .then or .catch
SettleHandler ==
    /\ microtasks # <<>>
    /\ Head(microtasks).kind = "handler"
    /\ LET a == Head(microtasks).id
           S0 == [Cur EXCEPT !.microtasks = Tail(@)]
           S1 == IF attempts[a].race = "resolved" THEN onResumed(S0, a)
                 ELSE onResumeFailed(S0, a)
       IN  Commit(Enqueue([S1 EXCEPT !.attempts[a].stage = "finally"], "finally", a))
    /\ returned' = <<>>
    /\ UNCHANGED pending
    /\ draining' = (microtasks' # <<>>)

\* The calls waiting for chain a, in the order they started to wait
Waiters(a) == SelectSeq(pending, LAMBDA c : c.pc = "awaiting" /\ c.await = a)

\* A chain without the .finally handler: the waiters are resumed and
\* this.resumePromise is left as it is
SettleFinally_keepHandle ==
    /\ microtasks # <<>>
    /\ Head(microtasks).kind = "finally"
    /\ LET a == Head(microtasks).id
           w == Waiters(a)
       IN  /\ Commit([Cur EXCEPT !.microtasks = Tail(@) \o [k \in 1..Len(w) |->
                                                  [kind |-> "cont", id |-> w[k].id]],
                                 !.attempts[a].stage = "settled"])
           /\ pending' = [i \in 1..Len(pending) |->
                            IF pending[i].pc = "awaiting" /\ pending[i].await = a
                            THEN [pending[i] EXCEPT !.pc = "ready",
                                                    !.value = attempts[a].value]
                            ELSE pending[i]]
    /\ returned' = <<>>
    /\ draining' = (microtasks' # <<>>)

\* The .finally handler of attemptResume; the chain is then resolved and the
\* reactions of its waiters are queued
SettleFinally ==
    /\ microtasks # <<>>
    /\ Head(microtasks).kind = "finally"
    /\ LET a == Head(microtasks).id
           w == Waiters(a)
       IN  /\ Commit([Cur EXCEPT !.microtasks = Tail(@) \o [k \in 1..Len(w) |->
                                                  [kind |-> "cont", id |-> w[k].id]],
                                 !.resumePromise = 0,
                                 !.attempts[a].stage = "settled"])
           /\ pending' = [i \in 1..Len(pending) |->
                            IF pending[i].pc = "awaiting" /\ pending[i].await = a
                            THEN [pending[i] EXCEPT !.pc = "ready",
                                                    !.value = attempts[a].value]
                            ELSE pending[i]]
    /\ returned' = <<>>
    /\ draining' = (microtasks' # <<>>)

----------------------------------------------------------------------------
\* Event listeners

\* The gesture listener of setupListeners
onGesture(S, warmOk) == attemptResume(S, "gesture", warmOk).S

\* The visibilitychange listener of setupListeners, document visible
onVisibilityChange(S, warmOk) ==
    IF S.context # 0 THEN attemptResume(S, "visibility", warmOk).S ELSE S

\* A statechange listener that does not look at this.hasUnlockedBefore
onStateChange_ungated(S, warmOk) ==
    IF S.context = 0 \/ S.ctxState[S.context] # "running"
    THEN attemptResume(S, "statechange", warmOk).S
    ELSE S

\* The statechange listener of setupStateChangeListener
onStateChange(S, warmOk) ==
    IF (S.context = 0 \/ S.ctxState[S.context] # "running") /\ S.hasUnlockedBefore
    THEN attemptResume(S, "statechange", warmOk).S
    ELSE S

\* An event runs the listener once per registration
RECURSIVE Listeners(_, _, _, _)
Listeners(S, n, trigger, warmOk) ==
    IF n = 0 THEN S
    ELSE Listeners(IF trigger = "gesture" THEN onGesture(S, warmOk)
                   ELSE IF trigger = "visibility" THEN onVisibilityChange(S, warmOk)
                   ELSE onStateChange(S, warmOk),
                   n - 1, trigger, warmOk)

\* A user gesture on document.body
Gesture(event, warmOk) ==
    /\ microtasks = <<>>
    /\ Commit(Listeners(Cur, gestureListeners[event], "gesture", warmOk))
    /\ returned' = <<>>
    /\ UNCHANGED pending
    /\ Bounded
    /\ draining' = (microtasks' # <<>>)

\* visibilitychange on document
VisibilityChange(visible, warmOk) ==
    /\ microtasks = <<>>
    /\ Commit(IF visible THEN Listeners(Cur, visibilityListeners, "visibility", warmOk)
              ELSE Cur)
    /\ returned' = <<>>
    /\ UNCHANGED pending
    /\ Bounded
    /\ draining' = (microtasks' # <<>>)

\* The platform changes the state of an open instance and fires statechange
StateChange(ctx, state, warmOk) ==
    /\ microtasks = <<>>
    /\ ctxState[ctx] # "closed"
    /\ state # ctxState[ctx]
    /\ Commit(Listeners([Cur EXCEPT !.ctxState[ctx] = state], scListeners[ctx],
                        "statechange", warmOk))
    /\ returned' = <<>>
    /\ UNCHANGED pending
    /\ Bounded
    /\ draining' = (microtasks' # <<>>)

----------------------------------------------------------------------------
\* useTimer: the round timer (prep, then work and rest per round)

Phase == {"idle", "prep", "work", "rest", "done"}

\* interface TimerProfile; a single cycle, as in the hook's tests
Profiles ==
    [workTime : 1..MaxWorkTime, restTime : 1..MaxRestTime, rounds : 1..MaxRounds,
     cycles : {1}, prepTime : 1..MaxPrepTime]

\* The profile of the hook's tests
defaultProfile == [workTime |-> 3, restTime |-> 2, rounds |-> 2, cycles |-> 1, prepTime |-> 2]

\* The state useTimer(p) starts in, and reset() returns to
initialState(p) ==
    [isRunning |-> FALSE, isPaused |-> FALSE, phase |-> "idle", currentRound |-> 1,
     totalRounds |-> p.rounds * p.cycles, timeLeft |-> 0]

\* A timer that rests after every round, the last one included
tick_restAfterLast(t, p) ==
    IF t.timeLeft > 1 THEN [t EXCEPT !.timeLeft = @ - 1]
    ELSE IF t.phase = "prep" THEN [t EXCEPT !.phase = "work", !.timeLeft = p.workTime]
    ELSE IF t.phase = "work"
         THEN [t EXCEPT !.phase = "rest", !.timeLeft = p.restTime]
    ELSE IF t.phase = "rest"
         THEN IF t.currentRound < t.totalRounds
              THEN [t EXCEPT !.phase = "work", !.timeLeft = p.workTime,
                             !.currentRound = @ + 1]
              ELSE [t EXCEPT !.phase = "done", !.timeLeft = 0, !.isRunning = FALSE]
    ELSE t

\* The one-second interval callback of a running timer: count down, and at
\* the end of a phase enter the next one with its full duration
tick(t, p) ==
    IF t.timeLeft > 1 THEN [t EXCEPT !.timeLeft = @ - 1]
    ELSE IF t.phase = "prep" THEN [t EXCEPT !.phase = "work", !.timeLeft = p.workTime]
    ELSE IF t.phase = "work"
         THEN IF t.currentRound < t.totalRounds
              THEN [t EXCEPT !.phase = "rest", !.timeLeft = p.restTime]
              ELSE [t EXCEPT !.phase = "done", !.timeLeft = 0, !.isRunning = FALSE]
    ELSE IF t.phase = "rest"
         THEN [t EXCEPT !.phase = "work", !.timeLeft = p.workTime, !.currentRound = @ + 1]
    ELSE t

\* A resume that begins the workout again
started_fromPrep(t, p) ==
    [initialState(p) EXCEPT !.isRunning = TRUE, !.phase = "prep", !.timeLeft = p.prepTime]

\* What start() makes of a timer that is not running: a paused one goes on
\* where it was, an idle or finished one begins with prep
started(t, p) ==
    IF t.isPaused THEN [t EXCEPT !.isRunning = TRUE, !.isPaused = FALSE]
    ELSE [initialState(p) EXCEPT !.isRunning = TRUE, !.phase = "prep",
                                 !.timeLeft = p.prepTime]

\* A pause that stops the interval without marking the timer paused
paused_unmarked(t) == [t EXCEPT !.isRunning = FALSE]

\* What pause() makes of a running timer
paused(t) == [t EXCEPT !.isRunning = FALSE, !.isPaused = TRUE]

\* start(), on a timer that is not running
start ==
    /\ ~timerState.isRunning
    /\ timerState' = started(timerState, profile)
    /\ UNCHANGED <<profile, wakeVars, setsVars, vars>>

\* pause(), on a running timer
pause ==
    /\ timerState.isRunning
    /\ timerState' = paused(timerState)
    /\ UNCHANGED <<profile, wakeVars, setsVars, vars>>

\* toggle(): pause if running, start otherwise
toggle ==
    /\ timerState' = IF timerState.isRunning THEN paused(timerState)
                     ELSE started(timerState, profile)
    /\ UNCHANGED <<profile, wakeVars, setsVars, vars>>

\* A reset that stops the timer where it is
reset_keepPhase ==
    /\ timerState' = [timerState EXCEPT !.isRunning = FALSE, !.isPaused = FALSE]
    /\ UNCHANGED <<profile, wakeVars, setsVars, vars>>

\* reset()
reset ==
    /\ timerState' = initialState(profile)
    /\ UNCHANGED <<profile, wakeVars, setsVars, vars>>

\* One second passes: the interval callback runs if the timer is running
Elapse ==
    /\ timerState' = IF timerState.isRunning THEN tick(timerState, profile)
                     ELSE timerState
    /\ UNCHANGED <<profile, wakeVars, setsVars, vars>>

----------------------------------------------------------------------------
\* useWakeLock: the screen wake lock, requested on mount and whenever the page
\* becomes visible again.  An invocation is a record: op is the function, pc
\* the await it is suspended at, sentinel the lock whose release() it awaits.

\* What the functions of the hook read and write
Wake == [ref |-> wakeLockRef, sentinels |-> sentinels, calls |-> wakeCalls]

CommitWake(W) ==
    /\ wakeLockRef' = W.ref
    /\ sentinels' = W.sentinels
    /\ wakeCalls' = W.calls
    /\ Len(wakeCalls') <= MaxWakeCalls
    /\ UNCHANGED <<wakeLockSupported, profile, timerState, setsVars, vars>>

\* requestWakeLock(), up to its first await: the release() of the lock held,
\* or navigator.wakeLock.request("screen")
requestWakeLock(W) ==
    IF ~wakeLockSupported THEN W
    ELSE IF W.ref # 0
         THEN [W EXCEPT !.calls = Append(@, [op |-> "requestWakeLock", pc |-> "releasing",
                                             sentinel |-> W.ref])]
    ELSE [W EXCEPT !.calls = Append(@, [op |-> "requestWakeLock", pc |-> "requesting",
                                        sentinel |-> 0])]

\* releaseWakeLock(), up to its await
releaseWakeLock(W) ==
    IF W.ref # 0
    THEN [W EXCEPT !.calls = Append(@, [op |-> "releaseWakeLock", pc |-> "releasing",
                                        sentinel |-> W.ref])]
    ELSE W

\* handleRelease, the once-listener requestWakeLock puts on the sentinel it got
handleRelease(W, k) == IF W.ref = k THEN [W EXCEPT !.ref = 0] ELSE W

\* The invocations but the i-th
Drop(calls, i) == [j \in 1..(Len(calls) - 1) |-> IF j < i THEN calls[j] ELSE calls[j + 1]]

\* The mount effect: requestWakeLock() and the visibilitychange listener
Mount ==
    /\ ~mounted
    /\ mounted' = TRUE
    /\ CommitWake(requestWakeLock(Wake))

\* handleVisibilityChange, the document having become visible
VisibilityVisible ==
    /\ mounted
    /\ mounted' = mounted
    /\ CommitWake(requestWakeLock(Wake))

\* The cleanup of the mount effect: releaseWakeLock() and the listener removed
Unmount ==
    /\ mounted
    /\ mounted' = FALSE
    /\ CommitWake(releaseWakeLock(Wake))

\* sentinel.release() settles for invocation i: the lock is released, its
\* release event runs handleRelease, and the invocation goes on after its
\* await: wakeLockRef.current = null, and requestWakeLock then asks for a lock
ReleaseSettles(i) ==
    /\ wakeCalls[i].pc = "releasing"
    /\ LET k == wakeCalls[i].sentinel
           W1 == handleRelease([Wake EXCEPT !.sentinels[k] = "released"], k)
           W2 == [W1 EXCEPT !.ref = 0]
       IN  CommitWake(IF wakeCalls[i].op = "requestWakeLock"
                      THEN [W2 EXCEPT !.calls[i].pc = "requesting", !.calls[i].sentinel = 0]
                      ELSE [W2 EXCEPT !.calls = Drop(@, i)])
    /\ mounted' = mounted

\* navigator.wakeLock.request("screen") resolves for invocation i with a new
\* sentinel, which the invocation stores in wakeLockRef.current
RequestResolves(i) ==
    /\ wakeCalls[i].pc = "requesting"
    /\ Len(sentinels) < MaxSentinels
    /\ LET k == Len(sentinels) + 1
       IN  CommitWake([Wake EXCEPT !.sentinels = Append(@, "held"),
                                   !.ref = k,
                                   !.calls = Drop(@, i)])
    /\ mounted' = mounted

\* The request is refused (the page is hidden, the battery is low): caught
RequestRejects(i) ==
    /\ wakeCalls[i].pc = "requesting"
    /\ CommitWake([Wake EXCEPT !.calls = Drop(@, i)])
    /\ mounted' = mounted

\* The platform releases a lock on its own (the page was hidden)
PlatformRelease(k) ==
    /\ sentinels[k] = "held"
    /\ CommitWake(handleRelease([Wake EXCEPT !.sentinels[k] = "released"], k))
    /\ mounted' = mounted

----------------------------------------------------------------------------
\* useSets: the counter of completed sets

Min(a, b) == IF a <= b THEN a ELSE b
Max(a, b) == IF a >= b THEN a ELSE b

\* useSets(maxCount) as first rendered
useSets(m) ==
    /\ count = 0
    /\ maxCount = m

\* An increment that does not look at maxCount
increment_unbounded ==
    /\ count' = count + 1
    /\ UNCHANGED <<maxCount, profile, timerState, wakeVars, vars>>

\* increment(): setCount(prev => Math.min(prev + 1, maxCount))
increment ==
    /\ count' = Min(count + 1, maxCount)
    /\ UNCHANGED <<maxCount, profile, timerState, wakeVars, vars>>

\* undo(): setCount(prev => Math.max(prev - 1, 0))
undo ==
    /\ count' = Max(count - 1, 0)
    /\ UNCHANGED <<maxCount, profile, timerState, wakeVars, vars>>

\* reset(): setCount(0)
resetCount ==
    /\ count' = 0
    /\ UNCHANGED <<maxCount, profile, timerState, wakeVars, vars>>

----------------------------------------------------------------------------
\* new AudioService(): the state of the fields after construction
Constructed ==
    /\ context = 0
    /\ resumePromise = 0
    /\ listenersAttached = FALSE
    /\ hasUnlockedBefore = FALSE
    /\ ctxState = <<>>
    /\ scListeners = <<>>
    /\ gestureListeners = [e \in USER_GESTURE_EVENTS |-> 0]
    /\ visibilityListeners = 0
    /\ attempts = <<>>
    /\ microtasks = <<>>
    /\ draining = FALSE
    /\ pending = <<>>
    /\ emitted = <<>>
    /\ synth = <<>>
    /\ returned = <<>>

\* useWakeLock before its mount effect runs
NotMounted ==
    /\ mounted = FALSE
    /\ wakeLockRef = 0
    /\ sentinels = <<>>
    /\ wakeCalls = <<>>

\* The service alone: the timer is in the state it is rendered in and never
\* started, the wake-lock hook never mounted
Init ==
    /\ Constructed
    /\ profile = defaultProfile
    /\ timerState = initialState(profile)
    /\ NotMounted
    /\ wakeLockSupported = TRUE
    /\ useSets(10)

\* The platform's choices that the next step can depend on: the state of an
\* instance constructed now, and whether a warmup played now throws
NewStates == IF context = 0 \/ ctxState[context] = "closed"
             THEN InitialStates ELSE {"suspended"}
Warmups == IF resumePromise = 0 THEN BOOLEAN ELSE {TRUE}

Next ==
    \/ \E s \in NewStates : prime(s)
    \/ \E s \in NewStates, w \in Warmups : ensureRunning(s, w)
    \/ \E s \in NewStates : ensureRunningResume(s)
    \/ \E p \in BeepParams, s \in NewStates, w \in Warmups, ok \in BOOLEAN :
          playBeep(p, s, w, ok)
    \/ \E ok \in BOOLEAN : playBeepThen(ok)
    \/ \E s \in NewStates, w \in Warmups : testSound(s, w)
    \/ \E ok \in BOOLEAN : testSoundResume(ok)
    \/ getState
    \/ \E a \in 1..Len(attempts) : TimerFire(a)
    \/ \E a \in 1..Len(attempts), s \in ContextState : ResumeResolve(a, s)
    \/ \E a \in 1..Len(attempts) : ResumeReject(a)
    \/ SettleHandler
    \/ SettleFinally
    \/ \E e \in USER_GESTURE_EVENTS, w \in Warmups : Gesture(e, w)
    \/ \E v \in BOOLEAN, w \in Warmups : VisibilityChange(v, w)
    \/ \E c \in 1..Len(ctxState), s \in ContextState, w \in Warmups : StateChange(c, s, w)

Spec == Init /\ [][Next]_vars

\* The event loop runs every queued reaction, and an armed timer fires
Microtask ==
    \/ SettleHandler
    \/ SettleFinally
    \/ \E s \in NewStates : ensureRunningResume(s)
    \/ \E ok \in BOOLEAN : playBeepThen(ok)
    \/ \E ok \in BOOLEAN : testSoundResume(ok)

Timer == \E a \in 1..Len(attempts) : TimerFire(a)

FairSpec == Spec /\ WF_vars(Microtask) /\ SF_vars(Timer)

\* The service on a platform whose AudioContext constructor may throw
ThrowingNext ==
    \/ Next
    \/ \E op \in {"prime", "ensureRunning", "playBeep", "testSound"} : ConstructorThrows(op)
    \/ ensureRunningResumeThrows

ThrowingSpec == Init /\ [][ThrowingNext]_vars

\* The round timer alone, for every profile within the bounds; the service is
\* constructed and never called
TimerInit ==
    /\ Constructed
    /\ profile \in Profiles
    /\ timerState = initialState(profile)
    /\ NotMounted
    /\ wakeLockSupported = TRUE
    /\ useSets(10)

TimerNext ==
    \/ start
    \/ pause
    \/ toggle
    \/ reset
    \/ Elapse

TimerSpec == TimerInit /\ [][TimerNext]_<<hooks, vars>>

\* The wake-lock hook alone, with and without the Wake Lock API
WakeInit ==
    /\ Constructed
    /\ profile = defaultProfile
    /\ timerState = initialState(profile)
    /\ NotMounted
    /\ wakeLockSupported \in BOOLEAN
    /\ useSets(10)

\* The set counter alone, mounted with any maxCount up to the bound
SetsInit ==
    /\ Constructed
    /\ profile = defaultProfile
    /\ timerState = initialState(profile)
    /\ NotMounted
    /\ wakeLockSupported = TRUE
    /\ \E m \in 0..MaxSets : useSets(m)

SetsNext ==
    \/ increment
    \/ undo
    \/ resetCount

SetsSpec == SetsInit /\ [][SetsNext]_<<hooks, vars>>

WakeNext ==
    \/ Mount
    \/ VisibilityVisible
    \/ Unmount
    \/ \E i \in 1..Len(wakeCalls) : ReleaseSettles(i)
    \/ \E i \in 1..Len(wakeCalls) : RequestResolves(i)
    \/ \E i \in 1..Len(wakeCalls) : RequestRejects(i)
    \/ \E k \in 1..Len(sentinels) : PlatformRelease(k)

WakeSpec == WakeInit /\ [][WakeNext]_<<hooks, vars>>

----------------------------------------------------------------------------
\* What the properties below speak of

Attempts == 1..Len(attempts)
Contexts == 1..Len(ctxState)
CallIds == 1..MaxPending

\* The chain of attempt a is not yet resolved
InFlight(a) == attempts[a].stage # "settled"

\* ctx.resume() calls on an instance that the platform has not settled
Outstanding(ctx) == {a \in Attempts : attempts[a].ctx = ctx /\ attempts[a].platform = "pending"}

\* An event of the last step / of this step
Recorded(type, info) == \E i \in 1..Len(emitted) : emitted[i] = recordEvent(type, info)
Records(type, info) == \E i \in 1..Len(emitted') : emitted'[i] = recordEvent(type, info)

\* This step begins an attempt
StartsAttempt == Len(attempts') = Len(attempts) + 1

\* Facade call id of the given operation still has a reaction to run
Waiting(id, op) == \E k \in 1..Len(pending) : pending[k].id = id /\ pending[k].op = op

\* C1: while an attempt is in flight on the current context no request invokes
\* the platform resume() again, and no instance ever has more than one
\* resume() call that the platform has not settled.
C1_Coalescing ==
    /\ [][(context # 0 /\ \E a \in Attempts : attempts[a].ctx = context /\ InFlight(a))
            => ~StartsAttempt]_vars
    /\ [](\A ctx \in Contexts : Cardinality(Outstanding(ctx)) <= 1)

\* C2: every ensureRunning() that waits for an attempt eventually resolves,
\* also when the platform never settles resume(), whether it began the
\* attempt or joined it.
C2_EnsureRunningResolves ==
    \A id \in CallIds : Waiting(id, "ensureRunning") ~> ~Waiting(id, "ensureRunning")

\* An ensureRunning() has just resolved after the attempt it joined, rather
\* than began, ended by timeout with the platform call still unsettled
C2_Witness ==
    /\ returned # <<>>
    /\ returned[1].op = "ensureRunning"
    /\ returned[1].await # 0
    /\ returned[1].started = 0
    /\ attempts[returned[1].await].race = "timeout"
    /\ attempts[returned[1].await].platform = "pending"

\* ensureRunning() made on a suspended context has just resolved after the
\* attempt it began timed out and the platform never settled resume()
TimedOutEnsureRunning ==
    /\ returned # <<>>
    /\ returned[1].op = "ensureRunning"
    /\ returned[1].state = "suspended"
    /\ returned[1].started # 0
    /\ attempts[returned[1].started].race = "timeout"
    /\ attempts[returned[1].started].platform = "pending"

\* C3 as stated: when that ensureRunning() resolves, no context exists.
C3_NoContextAfterTimeout == TimedOutEnsureRunning => context = 0

\* C3 amended: when that ensureRunning() resolves, a context exists again: the
\* instance the attempt began on is closed, and ensureRunning returns the
\* current instance, which is another one.
C3_ContextRecreated ==
    TimedOutEnsureRunning =>
        /\ context # 0
        /\ returned[1].ret = context
        /\ ctxState[context] # "closed"
        /\ context # attempts[returned[1].started].ctx
        /\ ctxState[attempts[returned[1].started].ctx] = "closed"

C3_Witness == TimedOutEnsureRunning /\ Recorded("audio:context_created", "suspended")

\* This step runs the .then or .catch handler of attempt a
Handles(a) == attempts[a].stage = "handler" /\ attempts'[a].stage = "finally"

\* This step is a facade call or the resumption of one
CallStep == returned' # <<>> \/ Len(pending') = Len(pending) + 1

\* C4: an attempt that ends by timeout or rejection leaves no context (the
\* instance it began on is closed) until a facade operation acquires one; an
\* attempt that ends in success destroys nothing.
C4_FailureDestroys ==
    /\ [][\A a \in Attempts : Handles(a) =>
            IF attempts[a].race \in {"timeout", "rejected"}
            THEN /\ context' = 0
                 /\ ctxState'[attempts[a].ctx] = "closed"
            ELSE /\ context' = context
                 /\ ctxState' = ctxState
                 /\ ~Records("audio:context_destroyed", "suspended")
                 /\ ~Records("audio:context_destroyed", "interrupted")
                 /\ ~Records("audio:context_destroyed", "running")
                 /\ ~Records("audio:context_destroyed", "closed")]_vars
    /\ [][(context = 0 /\ context' # 0) =>
            /\ CallStep
            /\ Records("audio:context_created", ctxState'[context'])]_vars

\* The .catch handler of an attempt the platform rejected has just run on a
\* context that existed
C4_Witness ==
    /\ context = 0
    /\ \E a \in Attempts : attempts[a].stage = "finally" /\ attempts[a].race = "rejected"
    /\ Recorded("audio:resume_failed", "rejected")
    /\ \E st \in ContextState : Recorded("audio:context_destroyed", st)

\* This step is a playBeep() call that finishes within the call
PlayBeepReturns ==
    /\ returned' # <<>>
    /\ returned'[1].op = "playBeep"
    /\ returned'[1].await = 0

\* This step is a playBeep() call that leaves a reaction behind
PlayBeepWaits ==
    /\ Len(pending') = Len(pending) + 1
    /\ pending'[Len(pending')].op = "playBeep"

\* This step runs the reaction a playBeep() call left behind
PlayBeepReacts ==
    /\ returned' # <<>>
    /\ returned'[1].op = "playBeep"
    /\ returned'[1].await # 0

\* The one tone of the call that finishes in this step, on instance ctx
OneTone(ctx) ==
    synth' = <<[ctx |-> ctx, call |-> returned'[1].id, params |-> returned'[1].params]>>

\* This step records no audio:resuming event
NoResuming ==
    \A i \in 1..Len(emitted') : emitted'[i].type # "audio:resuming"

\* C5: playBeep called while the current context is running starts no attempt
\* and calls no resume(), and, unless building the oscillator graph throws
\* (play_error), starts within the call exactly one tone, with the frequency,
\* duration, waveform and volume it was given, on that context.
C5_PlayBeepRunning ==
    [][(context # 0 /\ ctxState[context] = "running"
        /\ (PlayBeepReturns \/ PlayBeepWaits))
        => /\ PlayBeepReturns
           /\ ~StartsAttempt
           /\ NoResuming
           /\ attempts' = attempts
           /\ pending' = pending
           /\ (~Records("audio:play_error", "") => OneTone(context))]_vars

\* A playBeep with other than the default arguments has just played on a
\* running context while the handle of an earlier attempt was still set
C5_Witness ==
    /\ returned # <<>>
    /\ returned[1].op = "playBeep"
    /\ returned[1].await = 0
    /\ returned[1].state = "running"
    /\ returned[1].params.frequency = 440
    /\ synth = <<[ctx |-> context, call |-> returned[1].id, params |-> returned[1].params]>>
    /\ resumePromise # 0

C7_PlayBeepResumes ==
    /\ [][(resumePromise = 0 /\ PlayBeepWaits)
           => LET call == pending'[Len(pending')]
              IN  /\ call.state \in {"suspended", "interrupted"}
                  /\ Len(attempts') = Len(attempts) + 1
                  /\ call.started = Len(attempts')
                  /\ call.await = call.started
                  /\ resumePromise' = call.started
                  /\ attempts'[call.started].ctx = context'
                  /\ attempts'[call.started].stage = "racing"
                  /\ Records("audio:resuming", "playBeep")
                  /\ synth' = <<>>
                  /\ returned' = <<>>]_vars
    /\ [][(resumePromise = 0 /\ (PlayBeepReturns \/ PlayBeepWaits)
           /\ (IF PlayBeepWaits THEN pending'[Len(pending')].state
               ELSE returned'[1].state) \in {"suspended", "interrupted"})
           => PlayBeepWaits]_vars
    /\ [][PlayBeepReacts
           => LET a == returned'[1].await
                  succeeded == /\ attempts[a].race = "resolved"
                               /\ attempts[a].value
                               /\ context # 0
                               /\ ctxState[context] = "running"
              IN  /\ attempts[a].stage = "settled"
                  /\ ~StartsAttempt
                  /\ (attempts[a].race \in {"timeout", "rejected"} => synth' = <<>>)
                  /\ (synth' # <<>> => succeeded /\ OneTone(context))
                  /\ (succeeded /\ ~Records("audio:play_error", "") => OneTone(context))]_vars

\* The reaction of a playBeep that began an attempt on an interrupted context
\* has just played its tone
C7_Witness ==
    /\ returned # <<>>
    /\ returned[1].op = "playBeep"
    /\ returned[1].state = "interrupted"
    /\ returned[1].started # 0
    /\ returned[1].outcome = "played"
    /\ synth = <<[ctx |-> context, call |-> returned[1].id, params |-> returned[1].params]>>

\* An attempt started on instance ctx has ended in success: resume() resolved
\* before the timer and the .then handler has run
SucceededOn(ctx) ==
    \E a \in Attempts :
        /\ attempts[a].ctx = ctx
        /\ attempts[a].race = "resolved"
        /\ attempts[a].stage \in {"finally", "settled"}

\* This step is a state change of the current context to a state from which
\* it can be resumed
Interrupts ==
    /\ context # 0
    /\ context' = context
    /\ ctxState'[context] # ctxState[context]
    /\ ctxState'[context] \in {"suspended", "interrupted"}

\* C8: a state change of the current context to a non-running state starts no
\* attempt when no attempt has yet succeeded on that context, and starts one,
\* with trigger statechange, when one has (and none is in flight).
C8_StateChangeGate ==
    /\ [][(Interrupts /\ ~SucceededOn(context))
           => ~StartsAttempt /\ ~Records("audio:resuming", "statechange")]_vars
    /\ [][(Interrupts /\ SucceededOn(context) /\ resumePromise = 0)
           => StartsAttempt /\ Records("audio:resuming", "statechange")]_vars

\* C9 as stated: while hasUnlockedBefore is false neither the visibility
\* listener nor the statechange listener starts an attempt.
C9_NoPassiveResume ==
    [][~hasUnlockedBefore
        => /\ ~Records("audio:resuming", "visibility")
           /\ ~Records("audio:resuming", "statechange")]_vars

\* C9 amended: while hasUnlockedBefore is false an attempt is started only by
\* a gesture, by the visibility listener or by an explicit call
\* (ensureRunning, playBeep, testSound), never by the statechange listener.
C9_NoStateChangeResume ==
    [][(~hasUnlockedBefore /\ StartsAttempt)
        => /\ ~Records("audio:resuming", "statechange")
           /\ \E t \in {"gesture", "visibility", "ensureRunning", "playBeep", "testSound"} :
                 Records("audio:resuming", t)]_vars

\* The visibility listener has just started an attempt on a context that
\* was never unlocked
C9_Witness ==
    /\ ~hasUnlockedBefore
    /\ Recorded("audio:resuming", "visibility")
    /\ resumePromise # 0
    /\ attempts[resumePromise].ctx = context
    /\ ~SucceededOn(context)

\* C10: testSound() never rejects: whenever it settles it resolves with a
\* record whose state is filled in, with an error whenever played is false;
\* and it always settles, also when resume() never does.
C10_TestSoundSettles ==
    /\ [](returned # <<>> /\ returned[1].op = "testSound"
            => /\ returned[1].outcome = "resolved"
               /\ returned[1].result.state \in ContextState \cup {"destroyed"}
               /\ returned[1].result.played \in BOOLEAN
               /\ (~returned[1].result.played => returned[1].result.error # "")
               /\ (returned[1].result.played => returned[1].result.error = ""))
    /\ \A id \in CallIds : Waiting(id, "testSound") ~> ~Waiting(id, "testSound")

\* A testSound() whose attempt succeeded has just resolved with played false
\* because building the tone threw and the context was destroyed
C10_Witness ==
    /\ returned # <<>>
    /\ returned[1].op = "testSound"
    /\ returned[1].outcome = "resolved"
    /\ ~returned[1].result.played
    /\ returned[1].result.error = "TypeError"
    /\ Recorded("audio:play_error", "")
    /\ context = 0

\* testSound() made on a suspended context has just resolved after the
\* attempt it began timed out with resume() never settled
TimedOutTestSound ==
    /\ returned # <<>>
    /\ returned[1].op = "testSound"
    /\ returned[1].state = "suspended"
    /\ returned[1].started # 0
    /\ attempts[returned[1].started].race = "timeout"
    /\ attempts[returned[1].started].platform = "pending"

C12_UnlockFlagCurrent ==
    hasUnlockedBefore => context # 0 /\ SucceededOn(context)

\* The audio:context_destroyed events of this step
Destroyed == SelectSeq(emitted', LAMBDA ev : ev.type = "audio:context_destroyed")

\* The instance that is current during this step: the one constructed in it,
\* if any, else the one that was current before
CurrentInStep ==
    IF Len(ctxState') > Len(ctxState) THEN Len(ctxState') ELSE context

\* This step runs the .catch handler of an attempt
HandlesFailure ==
    \E a \in Attempts : Handles(a) /\ attempts[a].race \in {"timeout", "rejected"}

\* C13: destroyContext closes the current instance, clears this.context and
\* this.resumePromise and sets hasUnlockedBefore to false, recording one
\* context_destroyed event with the state the instance had; invoked when no
\* context exists (by the .catch handler of an attempt whose instance is
\* gone already) it changes no field and no instance and records no event.
C13_Destroy ==
    /\ [][Destroyed # <<>> =>
            LET d == CurrentInStep
            IN  /\ d # 0
                /\ Len(Destroyed) = 1
                /\ d \in Contexts =>
                       Destroyed[1] = recordEvent("audio:context_destroyed", ctxState[d])
                /\ d \notin Contexts =>
                       Records("audio:context_created", Destroyed[1].info)
                /\ ctxState'[d] = "closed"
                /\ \A c \in Contexts \ {d} : ctxState'[c] = ctxState[c]
                /\ context' = 0
                /\ resumePromise' = 0
                /\ hasUnlockedBefore' = FALSE]_vars
    /\ [][(context = 0 /\ HandlesFailure) =>
            /\ Destroyed = <<>>
            /\ Len(emitted') = 1
            /\ emitted'[1].type = "audio:resume_failed"
            /\ context' = 0
            /\ ctxState' = ctxState
            /\ resumePromise' = resumePromise
            /\ hasUnlockedBefore' = hasUnlockedBefore
            /\ scListeners' = scListeners]_vars
    /\ [][(context # 0 /\ HandlesFailure) => Len(Destroyed) = 1]_vars

\* The .catch handler of a timed-out attempt has just run with no context
\* left to destroy
C13_Witness ==
    /\ context = 0
    /\ emitted = <<recordEvent("audio:resume_failed", "timeout")>>
    /\ \E a \in Attempts : attempts[a].stage = "finally" /\ attempts[a].race = "timeout"

\* C14: however many instances are created, destroyed and recreated, each
\* gesture event and visibilitychange have exactly one listener from the first
\* creation on (none before), and every instance constructed has a statechange
\* listener.
C14_ListenersOnce ==
    /\ listenersAttached = (Len(ctxState) > 0)
    /\ \A e \in USER_GESTURE_EVENTS :
          gestureListeners[e] = IF listenersAttached THEN 1 ELSE 0
    /\ visibilityListeners = IF listenersAttached THEN 1 ELSE 0
    /\ Len(scListeners) = Len(ctxState)
    /\ \A c \in Contexts : scListeners[c] >= 1

\* A second instance has been constructed after the first was closed
C14_Witness ==
    /\ Len(ctxState) = MaxContexts
    /\ ctxState[1] = "closed"
    /\ context = MaxContexts
    /\ \A e \in USER_GESTURE_EVENTS : gestureListeners[e] = 1
    /\ visibilityListeners = 1
    /\ scListeners[context] >= 1

\* C15: every instance other than the current one is closed, so at most one
\* live instance exists; a tone is only ever started on the instance that is
\* current, and running, when it is started, and resume() is only ever called
\* on the current instance, which is then suspended or interrupted: never on
\* an instance that was destroyed.
C15_OneLiveContext ==
    /\ [](\A c \in Contexts : c # context => ctxState[c] = "closed")
    /\ [](Cardinality({c \in Contexts : ctxState[c] # "closed"}) <= 1)
    /\ [][\A i \in 1..Len(synth') :
            /\ synth'[i].ctx = CurrentInStep
            /\ synth'[i].ctx = context'
            /\ ctxState'[synth'[i].ctx] = "running"
            /\ synth'[i].ctx \in Contexts => ctxState[synth'[i].ctx] = "running"]_vars
    /\ [][\A a \in 1..Len(attempts') : a \notin Attempts =>
            /\ Len(attempts') = Len(attempts) + 1
            /\ attempts'[a].ctx = context'
            /\ attempts'[a].ctx = CurrentInStep
            /\ ctxState'[attempts'[a].ctx] \in {"suspended", "interrupted"}]_vars

\* A tone has just been started on the second instance, the first one
\* having been destroyed
C15_Witness ==
    /\ Len(ctxState) = 2
    /\ ctxState[1] = "closed"
    /\ context = 2
    /\ synth # <<>>
    /\ synth[1].ctx = 2
    /\ \E a \in Attempts : attempts[a].ctx = 1 /\ attempts[a].platform = "pending"

\* This step resumes a facade call that waited for an attempt
Resumes ==
    /\ returned' # <<>>
    /\ returned'[1].await # 0

\* C16: every attempt ends, in exactly one of success, timeout or rejection
\* (the race is decided once and its handler records the matching event), and
\* when the continuation of a call that waited for an attempt runs, that
\* attempt is settled and this.resumePromise is null.
C16_HandleClearedFirst ==
    /\ \A a \in 1..MaxAttempts :
          (a \in Attempts /\ attempts[a].stage # "settled")
              ~> (a \in Attempts /\ attempts[a].stage = "settled")
    /\ [][\A a \in Attempts :
            /\ attempts[a].race # "pending" => attempts'[a].race = attempts[a].race
            /\ attempts'[a].stage # "racing" =>
                  attempts'[a].race \in {"resolved", "timeout", "rejected"}
            /\ Handles(a) =>
                  /\ Len(SelectSeq(emitted', LAMBDA ev :
                        ev.type \in {"audio:resumed", "audio:resume_failed"})) = 1
                  /\ (attempts[a].race = "resolved") =
                        (\E st \in ContextState : Records("audio:resumed", st))
                  /\ attempts[a].race # "resolved" =>
                        Records("audio:resume_failed", attempts[a].race)]_vars
    /\ [][Resumes =>
            /\ resumePromise = 0
            /\ attempts[returned'[1].await].stage = "settled"
            /\ returned'[1].value = attempts[returned'[1].await].value]_vars

\* An ensureRunning() that joined an attempt has just resumed after the
\* attempt succeeded
C16_Witness ==
    /\ returned # <<>>
    /\ returned[1].op = "ensureRunning"
    /\ returned[1].await # 0
    /\ returned[1].started = 0
    /\ returned[1].value
    /\ attempts[returned[1].await].race = "resolved"
    /\ resumePromise = 0
    /\ context = returned[1].ret

\* This step is the platform settling the resume() of attempt a
Settles(a) == attempts[a].platform = "pending" /\ attempts'[a].platform # "pending"

\* C17: an attempt whose timer fired first has failed (it resolves false), and
\* the later settlement of its resume(), resolved or rejected, changes nothing:
\* no handler is queued, no event is recorded, and hasUnlockedBefore,
\* this.resumePromise, this.context and every instance are as they were.
C17_LateSettlementIgnored ==
    /\ [](\A a \in Attempts :
            attempts[a].race = "timeout" /\ attempts[a].stage \in {"finally", "settled"}
                => ~attempts[a].value /\ ctxState[attempts[a].ctx] = "closed")
    /\ [][\A a \in Attempts : (attempts[a].race = "timeout" /\ Settles(a)) =>
            /\ attempts' = [attempts EXCEPT ![a].platform = attempts'[a].platform]
            /\ microtasks' = <<>>
            /\ emitted' = <<>>
            /\ hasUnlockedBefore' = hasUnlockedBefore
            /\ resumePromise' = resumePromise
            /\ context' = context
            /\ ctxState' = ctxState
            /\ pending' = pending]_vars

\* The resume() of a timed-out attempt has just resolved while a newer
\* attempt is in flight on the replacement context
C17_Witness ==
    /\ Len(attempts) >= 2
    /\ attempts[1].race = "timeout"
    /\ attempts[1].platform = "resolved"
    /\ emitted = <<>>
    /\ context = 2
    /\ resumePromise = 2
    /\ attempts[2].stage = "racing"
    /\ ~hasUnlockedBefore

\* Attempt a was started on an instance that is no longer the current one,
\* and a successor is current
Stale(a) == context # 0 /\ attempts[a].ctx # context

\* This step runs a reaction of the chain of attempt a
Reacts(a) == attempts'[a].stage # attempts[a].stage

\* C18: an attempt whose instance was destroyed or replaced while it was in
\* flight is discarded: when it settles, its reactions leave the successor's
\* hasUnlockedBefore, its in-flight handle and the successor itself as they
\* were; and the handle held while a live instance is current is never that
\* of an attempt made on another instance, so no request is coalesced onto it.
C18_StaleAttemptDiscarded ==
    /\ [][\A a \in Attempts : (Stale(a) /\ Reacts(a)) =>
            /\ hasUnlockedBefore' = hasUnlockedBefore
            /\ resumePromise' = resumePromise
            /\ context' = context
            /\ ctxState' = ctxState]_vars
    /\ []((context # 0 /\ ctxState[context] # "closed" /\ resumePromise # 0)
            => attempts[resumePromise].ctx = context)

\* Position of the play_error event among the events of this step (0: none)
PlayErrorAt ==
    IF \E i \in 1..Len(emitted') : emitted'[i].type = "audio:play_error"
    THEN CHOOSE i \in 1..Len(emitted') : emitted'[i].type = "audio:play_error"
    ELSE 0

\* C19: when building or starting the tone throws, in playBeep (in the call
\* or in its reaction) or in testSound, play_error is recorded, the next thing
\* that happens is the destruction of the current context, no tone is
\* started, and the caller sees no exception: playBeep returns and
\* testSound resolves with played false and an error.
C19_SynthesisFailure ==
    [][PlayErrorAt # 0 =>
        /\ returned' # <<>>
        /\ returned'[1].op \in {"playBeep", "testSound"}
        /\ Len(emitted') > PlayErrorAt
        /\ emitted'[PlayErrorAt + 1].type = "audio:context_destroyed"
        /\ emitted'[PlayErrorAt + 1].info = "running"
        /\ context' = 0
        /\ ctxState'[CurrentInStep] = "closed"
        /\ resumePromise' = 0
        /\ synth' = <<>>
        /\ returned'[1].op = "playBeep" => returned'[1].outcome = "play_error"
        /\ returned'[1].op = "testSound" =>
              /\ returned'[1].outcome = "resolved"
              /\ ~returned'[1].result.played
              /\ returned'[1].result.error # ""]_vars

\* The reaction of a playBeep that began an attempt has just failed to build
\* its tone after the attempt succeeded
C19_Witness ==
    /\ returned # <<>>
    /\ returned[1].op = "playBeep"
    /\ returned[1].started # 0
    /\ attempts[returned[1].started].value
    /\ returned[1].outcome = "play_error"
    /\ Recorded("audio:play_error", "")
    /\ Recorded("audio:context_destroyed", "running")
    /\ context = 0

\* This step is a call of the given operation that returns within the call
Returns(op) == returned' # <<>> /\ returned'[1].op = op /\ returned'[1].await = 0

\* C20: getState() changes no field of the service, constructs no instance,
\* starts no attempt and records no event; it reports what the fields hold,
\* which before any instance was constructed is contextExists false and state
\* null.  prime() leaves a context, constructing one (with the listeners
\* attached) when there is none or it is closed, in the state the platform
\* constructed it in; it starts no attempt, calls no resume() and plays nothing.
C20_GetStateAndPrime ==
    /\ [][Returns("getState") =>
            /\ UNCHANGED <<context, resumePromise, listenersAttached, hasUnlockedBefore,
                           ctxState, scListeners, gestureListeners, visibilityListeners,
                           attempts, microtasks, pending>>
            /\ emitted' = <<>>
            /\ synth' = <<>>
            /\ returned'[1].result =
                  [contextExists |-> context # 0,
                   state |-> IF context = 0 THEN "null" ELSE ctxState[context],
                   hasUnlockedBefore |-> hasUnlockedBefore,
                   resumeInProgress |-> resumePromise # 0]
            /\ Len(ctxState) = 0 =>
                  /\ ~returned'[1].result.contextExists
                  /\ returned'[1].result.state = "null"]_vars
    /\ [][Returns("prime") =>
            /\ context' # 0
            /\ ctxState'[context'] # "closed"
            /\ listenersAttached'
            /\ \A e \in USER_GESTURE_EVENTS : gestureListeners'[e] = 1
            /\ visibilityListeners' = 1
            /\ scListeners'[context'] >= 1
            /\ attempts' = attempts
            /\ resumePromise' = resumePromise
            /\ hasUnlockedBefore' = hasUnlockedBefore
            /\ NoResuming
            /\ synth' = <<>>
            /\ microtasks' = microtasks
            /\ pending' = pending
            /\ IF context # 0 /\ ctxState[context] # "closed"
               THEN context' = context /\ ctxState' = ctxState /\ emitted' = <<>>
               ELSE /\ context' = Len(ctxState) + 1
                    /\ emitted' = <<recordEvent("audio:context_created",
                                                ctxState'[context'])>>
                    /\ \A c \in Contexts : ctxState'[c] = ctxState[c]]_vars

\* getState() has just reported an attempt in flight on a suspended context
\* that prime() created
C20_Witness ==
    /\ returned # <<>>
    /\ returned[1].op = "getState"
    /\ returned[1].result = [contextExists |-> TRUE, state |-> "suspended",
                             hasUnlockedBefore |-> FALSE, resumeInProgress |-> TRUE]
    /\ Len(ctxState) = 1

\* ensureRunning() made on a suspended context has just resolved after the
\* attempt it began was resolved by the platform, which left the context running
ResumedEnsureRunning ==
    /\ returned # <<>>
    /\ returned[1].op = "ensureRunning"
    /\ returned[1].state = "suspended"
    /\ returned[1].started # 0
    /\ attempts[returned[1].started].race = "resolved"
    /\ attempts[returned[1].started].value

\* The events of the given type recorded by this step
EventsOf(type) == SelectSeq(emitted', LAMBDA e : e.type = type)

C22_NeverThrows ==
    returned # <<>> => returned[1].outcome \notin {"threw", "rejected"}

\* Who calls attemptResume
ResumeTriggers == {"gesture", "visibility", "statechange", "ensureRunning",
                   "playBeep", "testSound"}

\* C23: in every state the service reaches, attemptResume on a running context
\* returns a promise already resolved true and on a closed context with no
\* attempt held a promise already resolved false, changing nothing in either
\* case: no resume() call, no event, no destruction.  Accordingly an attempt
\* only ever begins on a context that is suspended or interrupted, and
\* ensureRunning() on a running context returns it at once without an attempt.
C23_DecisionTable ==
    /\ [](\A t \in ResumeTriggers, w \in BOOLEAN :
            /\ (context # 0 /\ ctxState[context] = "running")
                  => attemptResume(Cur, t, w) = [S |-> Cur, ret |-> Value(TRUE)]
            /\ (context # 0 /\ ctxState[context] \notin {"running", "suspended", "interrupted"}
                  /\ resumePromise = 0)
                  => attemptResume(Cur, t, w) = [S |-> Cur, ret |-> Value(FALSE)])
    /\ [][StartsAttempt =>
            /\ attempts'[Len(attempts')].ctx = context'
            /\ ctxState'[context'] \in {"suspended", "interrupted"}
            /\ attempts'[Len(attempts')].platform = "pending"]_vars
    /\ [][(returned' # <<>> /\ returned'[1].op = "ensureRunning" /\ returned'[1].await = 0)
            => /\ returned'[1].state = "running"
               /\ returned'[1].outcome = "resolved"
               /\ returned'[1].ret = context'
               /\ ctxState'[context'] = "running"
               /\ ~StartsAttempt
               /\ EventsOf("audio:resuming") = <<>>
               /\ attempts' = attempts]_vars
    /\ [][(Len(pending') = Len(pending) + 1
             /\ pending'[Len(pending')].op = "ensureRunning")
            => pending'[Len(pending')].state # "running"]_vars

\* The statechange listener of an unlocked context has just called
\* attemptResume on the context the platform closed: nothing was started,
\* recorded or destroyed
C23_Witness ==
    /\ context # 0
    /\ ctxState[context] = "closed"
    /\ resumePromise = 0
    /\ hasUnlockedBefore
    /\ emitted = <<>>
    /\ returned = <<>>
    /\ \A a \in Attempts : ~InFlight(a)

\* A failed attempt (timeout or rejection) has destroyed the context and none
\* was acquired since
DestroyedByFailure ==
    /\ context = 0
    /\ \E a \in Attempts :
          /\ attempts[a].race \in {"timeout", "rejected"}
          /\ attempts[a].stage = "settled"
          /\ ctxState[attempts[a].ctx] = "closed"

\* This step is a user gesture on document.body
GestureStep == \E e \in USER_GESTURE_EVENTS, w \in BOOLEAN : Gesture(e, w)

\* C24: after a failed attempt has destroyed the context, a user gesture
\* (touchstart, touchend, mousedown, keydown or click) creates a fresh context.
C24_GestureRecreates ==
    [][(DestroyedByFailure /\ GestureStep)
        => /\ context' # 0
           /\ Len(ctxState') = Len(ctxState) + 1]_vars

\* This step is a call of prime, ensureRunning, playBeep or testSound
FacadeCall ==
    \/ \E s \in InitialStates : prime(s)
    \/ \E s \in InitialStates, w \in BOOLEAN : ensureRunning(s, w)
    \/ \E p \in BeepParams, s \in InitialStates, w \in BOOLEAN, ok \in BOOLEAN :
          playBeep(p, s, w, ok)
    \/ \E s \in InitialStates, w \in BOOLEAN : testSound(s, w)

\* This step is a playBeep call during which the oscillator graph can be built
PlayBeepOk ==
    \E p \in BeepParams, s \in InitialStates, w \in BOOLEAN : playBeep(p, s, w, TRUE)

\* C25: once the context was destroyed (this.context is null after an instance
\* existed), the next call of prime, ensureRunning, playBeep or testSound
\* constructs a new instance; on an instance constructed after a destruction
\* that the platform reports running, a playBeep whose oscillator can be built
\* plays its tone; and the service never stays blocked by an attempt: the
\* handle this.resumePromise only ever names an unsettled attempt, and it is
\* always cleared again.
C25_Recovery ==
    /\ [][(context = 0 /\ Len(ctxState) >= 1 /\ FacadeCall) =>
            /\ Len(ctxState') = Len(ctxState) + 1
            /\ emitted' # <<>>
            /\ emitted'[1].type = "audio:context_created"
            /\ emitted'[1].info \in InitialStates
            /\ \A c \in Contexts : ctxState'[c] = "closed"
            /\ IF Records("audio:play_error", "")
               THEN context' = 0 /\ ctxState'[Len(ctxState')] = "closed"
               ELSE context' = Len(ctxState') /\ ctxState'[context'] = emitted'[1].info]_vars
    /\ [][(Len(ctxState) >= 2 /\ context # 0 /\ ctxState[context] = "running" /\ PlayBeepOk) =>
            /\ returned' # <<>>
            /\ returned'[1].outcome = "played"
            /\ OneTone(context)
            /\ Records("audio:played", "")
            /\ context' = context]_vars
    /\ [](resumePromise # 0 => InFlight(resumePromise))
    /\ (resumePromise # 0) ~> (resumePromise = 0)

\* After a failed attempt destroyed the first instance, a playBeep has just
\* played on the second one, which an attempt had resumed
C25_Witness ==
    /\ returned # <<>>
    /\ returned[1].op = "playBeep"
    /\ returned[1].await = 0
    /\ synth # <<>>
    /\ synth[1].ctx = 2
    /\ context = 2
    /\ SucceededOn(2)
    /\ \E a \in Attempts : attempts[a].ctx = 1 /\ attempts[a].race \in {"timeout", "rejected"}
                              /\ attempts[a].stage = "settled"

----------------------------------------------------------------------------
\* The round timer

\* The configured duration of a phase
Duration(ph) ==
    IF ph = "prep" THEN profile.prepTime
    ELSE IF ph = "work" THEN profile.workTime
    ELSE IF ph = "rest" THEN profile.restTime
    ELSE 0

\* This step enters another phase
Enters(from, to) == timerState.phase = from /\ timerState'.phase = to

C27_PauseResume ==
    /\ [][pause => timerState' = [timerState EXCEPT !.isRunning = FALSE,
                                                    !.isPaused = TRUE]]_<<hooks, vars>>
    /\ [][(timerState.isPaused /\ Elapse) => timerState' = timerState]_<<hooks, vars>>
    /\ [][(timerState.isPaused /\ (start \/ toggle)) =>
            timerState' = [timerState EXCEPT !.isRunning = TRUE,
                                             !.isPaused = FALSE]]_<<hooks, vars>>
    /\ [][(timerState.isRunning /\ toggle) =>
            timerState' = [timerState EXCEPT !.isRunning = FALSE,
                                             !.isPaused = TRUE]]_<<hooks, vars>>
    /\ [](~(timerState.isRunning /\ timerState.isPaused))
    /\ [](timerState.isPaused => timerState.phase \in {"prep", "work", "rest"})

\* The timer is paused in the rest of the second round, one second of the
\* rest gone
C27_Witness ==
    /\ timerState.isPaused
    /\ ~timerState.isRunning
    /\ timerState.phase = "rest"
    /\ timerState.currentRound = 2
    /\ timerState.timeLeft = 1
    /\ profile.restTime = 2

\* C28: reset() in any state gives phase idle, currentRound 1, timeLeft 0,
\* isRunning false and isPaused false, which is the state of a timer never
\* started, and on an idle timer the passing of time changes nothing.
C28_Reset ==
    /\ [][reset => timerState' = [isRunning |-> FALSE, isPaused |-> FALSE,
                                  phase |-> "idle", currentRound |-> 1,
                                  totalRounds |-> profile.rounds * profile.cycles,
                                  timeLeft |-> 0]]_<<hooks, vars>>
    /\ [][(timerState.phase = "idle" /\ Elapse) => timerState' = timerState]_<<hooks, vars>>
    /\ [](timerState.phase = "idle" =>
            /\ ~timerState.isRunning
            /\ ~timerState.isPaused
            /\ timerState.currentRound = 1
            /\ timerState.timeLeft = 0)
    /\ [](ENABLED reset)

\* A timer running in the work of its third round, a state reset() applies to
C28_Witness ==
    /\ timerState.isRunning
    /\ timerState.phase = "work"
    /\ timerState.currentRound = 3
    /\ timerState.timeLeft = 1
    /\ profile.workTime = 3

----------------------------------------------------------------------------
\* The wake lock

\* C29: every sentinel acquired and not yet released is the one
\* wakeLockRef.current refers to, so at most one lock is held at any time.
C29_NoLeak ==
    /\ \A k \in 1..Len(sentinels) : sentinels[k] = "held" => wakeLockRef = k
    /\ Cardinality({k \in 1..Len(sentinels) : sentinels[k] = "held"}) <= 1

----------------------------------------------------------------------------
\* The attempt whose resume() resolved in time

\* C30: when resume() wins the race, the .then handler sets hasUnlockedBefore,
\* records audio:resumed with the state the instance is then in, destroys
\* nothing, and the attempt's result, which is what the calls waiting for it
\* receive, is true exactly when that state is running.
C30_ResolvedInTime ==
    /\ [][\A a \in Attempts : (Handles(a) /\ attempts[a].race = "resolved") =>
            LET after == ctxState[attempts[a].ctx]
            IN  /\ hasUnlockedBefore'
                /\ Records("audio:resumed", after)
                /\ Len(Destroyed) = 0
                /\ context' = context
                /\ ctxState' = ctxState
                /\ attempts'[a].value = (after = "running")]_vars
    /\ [][\A a \in Attempts :
            (/\ attempts[a].race = "resolved"
             /\ attempts[a].stage = "finally"
             /\ attempts'[a].stage = "settled") =>
            \A i \in 1..Len(pending) :
                (pending[i].pc = "awaiting" /\ pending[i].await = a) =>
                    /\ pending'[i].pc = "ready"
                    /\ pending'[i].value = attempts[a].value]_vars

\* The .then handler has just run on an instance that resume() left suspended
C30_Witness ==
    \E a \in Attempts :
        /\ attempts[a].stage = "finally"
        /\ attempts[a].race = "resolved"
        /\ attempts[a].value = FALSE
        /\ hasUnlockedBefore
        /\ context = attempts[a].ctx
        /\ ctxState[context] # "running"
        /\ Recorded("audio:resumed", ctxState[context])

----------------------------------------------------------------------------
\* The silent warmup

\* C31: a warmup that throws is recorded as a silent_warmup event with the
\* error; in the same step resume() is called under its timer on the current
\* instance, which is kept (it is the one the call found, or the one the call
\* created where it found none); and what an attempt resolves to depends on the
\* race between resume() and the timer and on the instance's state alone.
C31_WarmupNonFatal ==
    /\ [][Records("audio:silent_warmup", "error") =>
            /\ Len(attempts') = Len(attempts) + 1
            /\ context' # 0
            /\ attempts'[Len(attempts')] = NewAttempt(context')
            /\ resumePromise' = Len(attempts')
            /\ ctxState'[context'] \in {"suspended", "interrupted"}
            /\ Len(Destroyed) = 0
            /\ IF context = 0 THEN TRUE
               ELSE ctxState[context] # "closed" => context' = context]_vars
    /\ [][\A a \in Attempts : Handles(a) =>
            attempts'[a].value = (/\ attempts[a].race = "resolved"
                                  /\ ctxState[attempts[a].ctx] = "running")]_vars

\* An attempt has just been started by a call whose warmup threw
C31_Witness ==
    /\ Recorded("audio:silent_warmup", "error")
    /\ resumePromise # 0
    /\ attempts[resumePromise].platform = "pending"
    /\ attempts[resumePromise].timer = "armed"
    /\ attempts[resumePromise].ctx = context

----------------------------------------------------------------------------
\* The gesture listeners

\* C32: no step takes a gesture listener away, and a gesture that finds the
\* current instance suspended or interrupted with no attempt handle set starts
\* an attempt on that instance, recorded with the trigger gesture; this holds
\* after an unlock and a later interruption as it does before.
C32_GesturesStayEffective ==
    /\ [][\A e \in USER_GESTURE_EVENTS : gestureListeners'[e] >= gestureListeners[e]]_vars
    /\ [][\A e \in USER_GESTURE_EVENTS, w \in BOOLEAN :
            (/\ Gesture(e, w)
             /\ context # 0
             /\ resumePromise = 0) =>
            (ctxState[context] \in {"suspended", "interrupted"} =>
                /\ StartsAttempt
                /\ attempts'[Len(attempts')] = NewAttempt(context)
                /\ resumePromise' = Len(attempts')
                /\ Records("audio:resuming", "gesture"))]_vars

\* A gesture has just started an attempt on an instance that an earlier
\* attempt had unlocked and the platform has interrupted since
C32_Witness ==
    /\ context # 0
    /\ hasUnlockedBefore
    /\ ctxState[context] = "interrupted"
    /\ Recorded("audio:resuming", "gesture")
    /\ resumePromise = Len(attempts)
    /\ \E a \in Attempts : /\ attempts[a].ctx = context
                           /\ attempts[a].stage = "settled"
                           /\ attempts[a].value

----------------------------------------------------------------------------
\* The instance handed out after an await

\* C33: the instance ensureRunning() resolves with is the one the service
\* holds when it resolves, and it is not closed; the tone a playBeep() plays
\* after the attempt it started is synthesized on the instance the service
\* holds at that moment, which is running.
C33_CurrentInstance ==
    /\ [][(/\ returned' # <<>>
           /\ returned'[1].op = "ensureRunning"
           /\ returned'[1].outcome = "resolved") =>
            /\ returned'[1].ret # 0
            /\ returned'[1].ret = context'
            /\ ctxState'[context'] # "closed"]_vars
    /\ [][(PlayBeepReacts /\ synth' # <<>>) =>
            /\ context # 0
            /\ OneTone(context)
            /\ ctxState[context] = "running"
            /\ context' = context]_vars

\* An ensureRunning() has just resolved after an attempt whose instance was
\* destroyed in flight: it hands out another instance, the current one
C33_Witness ==
    /\ returned # <<>>
    /\ returned[1].op = "ensureRunning"
    /\ returned[1].await # 0
    /\ ctxState[attempts[returned[1].await].ctx] = "closed"
    /\ returned[1].ret = context
    /\ returned[1].ret # attempts[returned[1].await].ctx
    /\ ctxState[context] # "closed"

----------------------------------------------------------------------------
\* What a new instance starts with

\* C34: at every step in which getContext constructs an instance, the unlock
\* flag is false and no attempt handle is set when it does so.
C34_FreshInstance ==
    [][Len(ctxState') > Len(ctxState) =>
            /\ ~hasUnlockedBefore
            /\ resumePromise = 0]_vars

----------------------------------------------------------------------------
\* What getState() reports while there is no context

\* C35: whenever getState() can be called and reports that no context exists,
\* it reports hasUnlockedBefore false and resumeInProgress false.
C35_NoContextNoFlags ==
    (~draining /\ ~Snapshot(Cur).contextExists) =>
        /\ ~Snapshot(Cur).hasUnlockedBefore
        /\ ~Snapshot(Cur).resumeInProgress

----------------------------------------------------------------------------
\* The statechange listeners of an instance

\* C36: every instance carries exactly one statechange listener of the
\* service, so one state change runs the statechange handler once.
C36_OneStateChangeListener ==
    \A c \in Contexts : scListeners[c] = 1

----------------------------------------------------------------------------
\* The tones of one attempt

----------------------------------------------------------------------------
\* What testSound() reports

\* C38: testSound() resolves with played true exactly when, in the step that
\* resolves it, the test tone was synthesized on the current instance and that
\* instance was running; when the attempt resolved false, when there is no
\* running instance after it, or when synthesis throws, played is false.
C38_PlayedMeansTone ==
    [][(returned' # <<>> /\ returned'[1].op = "testSound") =>
        LET call == returned'[1]
        IN  /\ call.result.played =>
                /\ context # 0
                /\ ctxState[context] = "running"
                /\ synth' = <<[ctx |-> context, call |-> call.id, params |-> TestTone]>>
                /\ Records("audio:played", "")
                /\ Records("audio:test_success", "running")
            /\ ~call.result.played => synth' = <<>>
            /\ ~call.value => ~call.result.played
            /\ (IF context = 0 THEN TRUE ELSE ctxState[context] # "running")
                  => ~call.result.played
            /\ Records("audio:play_error", "") => ~call.result.played]_vars

\* A testSound() that had to resume a suspended instance has just resolved
\* with played true
C38_Witness ==
    /\ returned # <<>>
    /\ returned[1].op = "testSound"
    /\ returned[1].state = "suspended"
    /\ returned[1].started # 0
    /\ returned[1].result.played
    /\ synth = <<[ctx |-> context, call |-> returned[1].id, params |-> TestTone]>>
    /\ ctxState[context] = "running"

----------------------------------------------------------------------------
\* The set counter

\* C39: count stays between 0 and maxCount; increment at the maximum and undo
\* at 0 change nothing; reset sets count to 0; increment below the maximum adds
\* exactly 1 and undo above 0 takes exactly 1 away.
C39_CountInRange ==
    /\ [](0 <= count /\ count <= maxCount)
    /\ [][increment => count' = IF count = maxCount THEN count ELSE count + 1]_<<hooks, vars>>
    /\ [][undo => count' = IF count = 0 THEN 0 ELSE count - 1]_<<hooks, vars>>
    /\ [][resetCount => count' = 0]_<<hooks, vars>>
    /\ [][maxCount' = maxCount]_<<hooks, vars>>

\* The counter stands at its maximum, the one the application mounts it with
C39_Witness ==
    /\ maxCount = 10
    /\ count = maxCount

----------------------------------------------------------------------------
\* The wake lock after unmount

\* C40: once the hook is unmounted and no invocation of requestWakeLock or
\* releaseWakeLock is suspended any more, no sentinel is held.
C40_NothingHeldAfterUnmount ==
    (~mounted /\ wakeCalls = <<>>) =>
        \A k \in 1..Len(sentinels) : sentinels[k] # "held"

====
